---------------------------- MODULE Spec2Model ----------------------------
(***************************************************************************)
(* Kinematic character mover (area_43/player.py, Player) and leap/pounce   *)
(* arc controller (area_43/entities/entity_creatures/face_spider.py,       *)
(* FaceSpider) as state machines.                                          *)
(*                                                                         *)
(* Fixed-point units.                                                      *)
(*   Mover : lengths in 1e-5 m, velocities in cm/s, dt in ms, so that      *)
(*           velocity*dt is a length; normals and unit vectors are scaled   *)
(*           by 100 resp. 1000.                                            *)
(*   Spider: lengths in mm, velocities in mm/s, dt in ms.                  *)
(***************************************************************************)
EXTENDS Integers, Sequences, FiniteSets, TLC

VARIABLES
    \* ---- Player (mover) fields
    position,        \* Player._position   <<x, y, z>>
    velocity,        \* Player.velocity    <<vx, vy, vz>>
    is_grounded,     \* Player.is_grounded
    looking,         \* Player.looking
    noclip_mode,     \* Player.noclip_mode
    is_crouching,    \* Player.is_crouching
    is_sprinting,    \* Player.is_sprinting
    current_height,  \* Player._current_height
    heading,         \* Player._heading (degrees)
    body_attached,   \* number of times Player.body is attached to the physics world
    world,           \* name of the physics world the mover queries (fixed per behaviour)
    initial_position,\* Player.initial_position
    frame_dt,        \* the frame time passed to Player.update (fixed per behaviour)
    ticks,           \* number of Player.update calls so far
    last,            \* what the last Player operation did (history)
    \* ---- FaceSpider (leap controller)
    spider,          \* the FaceSpider's fields
    target,          \* the spider's target: its position and the take_damage calls it got
    terrain,         \* name of the physics world the spider queries (fixed per behaviour)
    spider_ticks,    \* number of timed spider calls so far
    pounce_log,      \* what the last FaceSpider operation did (history)
    health,          \* CreatureEntity.health of the spider
    is_alive,        \* CreatureEntity.is_alive of the spider
    \* ---- CreatureHandler
    creatures,       \* CreatureHandler._creatures (a slot holds a creature or NoCreature)
    handed_out,      \* the add calls so far, in order: the ID returned and the creature (history)
    asked_removed,   \* the handed-out IDs passed to remove so far (history)
    \* ---- InputHandler's gamepad state and the ThirdPersonPlayer reading it
    gamepad_available, \* InputHandler._gamepad_available
    left_stick_x,    \* InputHandler.left_stick_x, in thousandths
    left_stick_y,    \* InputHandler.left_stick_y, in thousandths
    gamepad_buttons, \* InputHandler._gamepad_buttons: [a]
    tpp_pc,          \* where the main thread is in the ThirdPersonPlayer's tick
    tpp,             \* what that tick has read so far: [jump_pressed, stick_x, stick_y, move_x, move_y]
    pad_log          \* what the gamepad thread wrote during the tick in progress (history)

moverVars == <<position, velocity, is_grounded, looking, noclip_mode, is_crouching,
               is_sprinting, current_height, heading, body_attached, world,
               initial_position, frame_dt, ticks, last>>

spiderVars == <<spider, target, terrain, spider_ticks, pounce_log, health, is_alive>>

handlerVars == <<creatures, handed_out, asked_removed>>

padVars == <<gamepad_available, left_stick_x, left_stick_y, gamepad_buttons, tpp_pc, tpp, pad_log>>

vars == <<moverVars, spiderVars, handlerVars, padVars>>

-----------------------------------------------------------------------------
(* Arithmetic helpers *)

Abs(a) == IF a < 0 THEN -a ELSE a

Min(a, b) == IF a < b THEN a ELSE b

Max(a, b) == IF a > b THEN a ELSE b

\* float product/quotient rounded toward zero to the fixed-point grid
Quot(a, b) == IF a >= 0 THEN a \div b ELSE -((-a) \div b)

\* a * b / c rounded toward zero, without forming a * b  (b >= 0, c > 0)
Scale(a, b, c) ==
    LET m == IF a < 0 THEN -a ELSE a
        q == (m \div c) * b + ((m % c) * b) \div c
    IN  IF a < 0 THEN -q ELSE q

RECURSIVE ISqrtBetween(_, _, _)
ISqrtBetween(n, lo, hi) ==
    IF lo >= hi THEN lo
    ELSE LET mid == (lo + hi + 1) \div 2
         IN IF mid * mid <= n THEN ISqrtBetween(n, mid, hi)
                              ELSE ISqrtBetween(n, lo, mid - 1)

\* math.sqrt on the fixed-point grid (floor), n < 2^31
ISqrt(n) == ISqrtBetween(n, 0, 46340)

\* 1000*cos(d degrees), d = 0..90
CosTable ==
  << 1000, 1000, 999, 999, 998, 996, 995, 993, 990, 988, 985, 982, 978,
     974, 970, 966, 961, 956, 951, 946, 940, 934, 927, 921, 914, 906,
     899, 891, 883, 875, 866, 857, 848, 839, 829, 819, 809, 799, 788,
     777, 766, 755, 743, 731, 719, 707, 695, 682, 669, 656, 643, 629,
     616, 602, 588, 574, 559, 545, 530, 515, 500, 485, 469, 454, 438,
     423, 407, 391, 375, 358, 342, 326, 309, 292, 276, 259, 242, 225,
     208, 191, 174, 156, 139, 122, 105, 87, 70, 52, 35, 17, 0 >>

\* math.cos of an angle in whole degrees, scaled by 1000
Cos(deg) ==
    LET a == deg % 360
    IN  IF a <= 90 THEN CosTable[a + 1]
        ELSE IF a <= 180 THEN -CosTable[180 - a + 1]
        ELSE IF a <= 270 THEN -CosTable[a - 180 + 1]
        ELSE CosTable[360 - a + 1]

\* math.sin of an angle in whole degrees, scaled by 1000
Sin(deg) == Cos(deg - 90)

RECURSIVE AngleBetween(_, _, _, _)
\* the largest angle b in lo..hi whose direction is not past (ax, ay):
\* ay*cos(b) - ax*sin(b) >= 0 decreases with b
AngleBetween(ax, ay, lo, hi) ==
    IF lo >= hi THEN lo
    ELSE LET mid == (lo + hi + 1) \div 2
         IN  IF ay * Cos(mid) - ax * Sin(mid) >= 0
             THEN AngleBetween(ax, ay, mid, hi)
             ELSE AngleBetween(ax, ay, lo, mid - 1)

\* math.atan2(y, x) in whole degrees, 0..359: the first-quadrant angle of
\* (|x|, |y|), rounded to the nearer degree, reflected into the quadrant of (x, y)
Atan2(y, x) ==
    LET ax == Abs(x)
        ay == Abs(y)
        below == AngleBetween(ax, ay, 0, 90)
        a == IF below < 90
                /\ Abs(ay * Cos(below + 1) - ax * Sin(below + 1))
                     < Abs(ay * Cos(below) - ax * Sin(below))
             THEN below + 1 ELSE below
    IN  IF x >= 0 /\ y >= 0 THEN a
        ELSE IF x < 0 /\ y >= 0 THEN 180 - a
        ELSE IF x < 0 /\ y < 0 THEN 180 + a
        ELSE (360 - a) % 360

Dot(u, n) == u[1] * n[1] + u[2] * n[2] + u[3] * n[3]

-----------------------------------------------------------------------------
(* Player tuning (Player.__init__) *)

M == 100 * 1000            \* one metre: 100 cm of 1000 length units each

height == 180000           \* self.height = 1.8
radius == 30000            \* self.radius = 0.3
crouch_height == 100000    \* self.crouch_height = 1.0
crouch_speed_transition == 10
gravity == -2000           \* self.gravity = -20.0  (cm/s^2)
jump_force == 600          \* self.jump_force = 6.0 (cm/s)
air_control == 3           \* self.air_control = 0.3 (tenths)
ground_accel == 10
air_accel == 2
friction == 10
max_slope == 70            \* self.max_slope = 0.7 (normals scaled by 100)
jog_speed == 300
sprint_speed == 500
crouch_speed == 150
noclip_speed == 500
noclip_fast_speed == 1500
MoveEpsilon == 10          \* 0.0001 m, the "only if moving" threshold of _slide_move
GhostLift == 5000          \* 0.05 m, test capsules are raised to avoid the floor
RayUp == 50000             \* 0.5 m, ground rays start this far above the feet
RayDown == 10000           \* 0.1 m, ground rays end this far below the feet
SnapHeight == 1000         \* 0.01 m, crouch transition snap distance
initial_heading == 0       \* rotation=(0, 0)

-----------------------------------------------------------------------------
(* The physics world queried by the mover: ground patches seen by rays and   *)
(* obstacles seen by the capsule overlap tests.  A patch or obstacle is a    *)
(* box [x0,x1] x [y0,y1] (x [z0,z1]) with the normal Bullet reports for it.  *)

Far == 100 * M

NoObstacles == << >>

FlatGround == << [x0 |-> -Far, x1 |-> Far, y0 |-> -Far, y1 |-> Far, z |-> 0,
                  n |-> <<0, 0, 100>>] >>

\* a wall across the +x direction, its face towards -x
WallX == [x0 |-> M, x1 |-> Far, y0 |-> -Far, y1 |-> Far, z0 |-> -Far, z1 |-> Far,
          n |-> <<-100, 0, 0>>]

\* side walls of a corridor along x, 0.1 m wide for the capsule centre
WallYPos == [x0 |-> -Far, x1 |-> Far, y0 |-> 5000, y1 |-> Far, z0 |-> -Far, z1 |-> Far,
             n |-> <<0, -100, 0>>]

WallYNeg == [x0 |-> -Far, x1 |-> Far, y0 |-> -Far, y1 |-> -5000, z0 |-> -Far, z1 |-> Far,
             n |-> <<0, 100, 0>>]

\* a slab overhead (ceiling contact, normal straight down), underside at 1.5 m
Slab == [x0 |-> 20000, x1 |-> Far, y0 |-> -Far, y1 |-> Far, z0 |-> 150000, z1 |-> 3 * M,
         n |-> <<0, 0, -100>>]

\* an overhang just steeper than the slope limit, facing down (normal.z = -0.7)
Overhang == [x0 |-> 20000, x1 |-> Far, y0 |-> -Far, y1 |-> Far, z0 |-> 150000, z1 |-> 3 * M,
             n |-> <<-71, 0, -70>>]

\* a bank just too steep to walk on (normal.z = 0.69)
SteepBank == [x0 |-> 20000, x1 |-> Far, y0 |-> -Far, y1 |-> Far, z0 |-> 0, z1 |-> M,
              n |-> <<-72, 0, 69>>]

\* a walkable ramp touching the capsule (normal.z = 0.7)
Ramp == [x0 |-> 20000, x1 |-> Far, y0 |-> -Far, y1 |-> Far, z0 |-> 0, z1 |-> M,
         n |-> <<-71, 0, 70>>]

\* the face of the steep bank as the ground rays see it, 2 cm above the floor
SteepPatch == [x0 |-> 20000, x1 |-> Far, y0 |-> -Far, y1 |-> Far, z |-> 2000,
               n |-> <<-72, 0, 69>>]

\* a roof over everything, its underside 2 m above the floor: a standing
\* capsule touches it once its feet are 0.15 m up
Roof == [x0 |-> -Far, x1 |-> Far, y0 |-> -Far, y1 |-> Far, z0 |-> 2 * M, z1 |-> 3 * M,
         n |-> <<0, 0, -100>>]

\* a pillar beside the way to the wall, 0.15 m square for the capsule centre
Pillar == [x0 |-> 55000, x1 |-> 70000, y0 |-> 65000, y1 |-> 80000, z0 |-> -Far, z1 |-> Far,
           n |-> <<-100, 0, 0>>]

Worlds ==
    { [name |-> "open",     ground |-> FlatGround, obstacles |-> NoObstacles],
      [name |-> "void",     ground |-> << >>,      obstacles |-> NoObstacles],
      [name |-> "wall",     ground |-> FlatGround, obstacles |-> <<WallX>>],
      [name |-> "deadend",  ground |-> FlatGround, obstacles |-> <<WallX, WallYPos, WallYNeg>>],
      [name |-> "slab",     ground |-> FlatGround, obstacles |-> <<Ramp, Overhang, Slab>>],
      [name |-> "cellar",   ground |-> FlatGround, obstacles |-> <<Roof>>],
      [name |-> "pillar",   ground |-> FlatGround, obstacles |-> <<WallX, Pillar>>],
      [name |-> "bank",     ground |-> FlatGround \o <<SteepPatch>>,
                            obstacles |-> <<Ramp, SteepBank>>] }

WorldByName == [name \in { w.name : w \in Worlds } |-> CHOOSE w \in Worlds : w.name = name]

\* the world of that name
World(name) == WorldByName[name]

\* physics.rayTestClosest for a vertical ray from zs down to ze at (x, y):
\* the highest patch under the ray start
RayTestDown(w, x, y, zs, ze) ==
    LET hits == { i \in 1..Len(w.ground) :
                    /\ w.ground[i].x0 <= x /\ x <= w.ground[i].x1
                    /\ w.ground[i].y0 <= y /\ y <= w.ground[i].y1
                    /\ ze <= w.ground[i].z /\ w.ground[i].z <= zs }
    IN  IF hits = {} THEN [hit |-> FALSE, z |-> 0, n |-> <<0, 0, 0>>]
        ELSE LET i == CHOOSE i \in hits : \A j \in hits : w.ground[i].z >= w.ground[j].z
             IN  [hit |-> TRUE, z |-> w.ground[i].z, n |-> w.ground[i].n]

\* physics.contactTest for a capsule of height h whose feet are at (x, y, z):
\* the normals of the obstacles it overlaps, in contact order
ContactTest(w, x, y, z, h) ==
    LET touches(o) == /\ o.x0 <= x /\ x <= o.x1
                      /\ o.y0 <= y /\ y <= o.y1
                      /\ o.z0 <= z + GhostLift + h
                      /\ z + GhostLift <= o.z1
        hit == SelectSeq(w.obstacles, touches)
    IN  [i \in 1..Len(hit) |-> hit[i].n]


-----------------------------------------------------------------------------
(* Player collision queries *)

\* _test_position taking every normal below the slope limit for a wall
TestPositionNoAbs(w, x, y, z, h) ==
    LET contacts == ContactTest(w, x, y, z, h)
        walls == SelectSeq(contacts, LAMBDA n : n[3] < max_slope)
    IN  IF Len(walls) > 0 THEN [blocked |-> TRUE, normal |-> Head(walls)]
                          ELSE [blocked |-> FALSE, normal |-> <<0, 0, 0>>]

\* _test_position blocked by every contact, whatever its normal
TestPositionAnyContact(w, x, y, z, h) ==
    LET contacts == ContactTest(w, x, y, z, h)
    IN  IF Len(contacts) > 0 THEN [blocked |-> TRUE, normal |-> Head(contacts)]
                             ELSE [blocked |-> FALSE, normal |-> <<0, 0, 0>>]

\* Player._test_position: (blocked, wall_normal); the first contact whose
\* normal is wall-like blocks
TestPosition(w, x, y, z, h) ==
    LET contacts == ContactTest(w, x, y, z, h)
        walls == SelectSeq(contacts, LAMBDA n : Abs(n[3]) < max_slope)
    IN  IF Len(walls) > 0 THEN [blocked |-> TRUE, normal |-> Head(walls)]
                          ELSE [blocked |-> FALSE, normal |-> <<0, 0, 0>>]

\* Player._test_ceiling: a contact with a downward-facing normal blocks
TestCeiling(w, x, y, z, h) ==
    LET contacts == ContactTest(w, x, y, z, h)
    IN  \E i \in 1..Len(contacts) : contacts[i][3] < -max_slope

\* Player._can_uncrouch: no contact at all with the standing capsule
CanUncrouch(w, p) == Len(ContactTest(w, p[1], p[2], p[3], height)) = 0

\* the move without its "only if moving" threshold
MovingAlways(move_x, move_y) == TRUE

\* move_len >= 0.0001 with move_len = sqrt(move_x^2 + move_y^2)
MovingEnough(move_x, move_y) ==
    \/ Abs(move_x) >= MoveEpsilon
    \/ Abs(move_y) >= MoveEpsilon
    \/ move_x * move_x + move_y * move_y >= MoveEpsilon * MoveEpsilon

\* for offset_deg in range(10, 91, 10): left (+offset) first, then right (-offset)
SlideProbes == [i \in 1..18 |-> [offset_deg |-> 10 * ((i + 1) \div 2),
                                 side |-> IF i % 2 = 1 THEN 1 ELSE -1]]

\* the position probed at SlideProbes[i]: the move turned by the probe's angle
ProbeAt(p, move_angle, move_len, i) ==
    LET test_angle == move_angle + SlideProbes[i].side * SlideProbes[i].offset_deg
    IN  << p[1] + Quot(Cos(test_angle) * move_len, 1000),
           p[2] + Quot(Sin(test_angle) * move_len, 1000) >>

\* the position taken when the probe at SlideProbes[i] is free: the probed
\* move scaled by speed_scale = cos(offset)
SlideAt(p, move_angle, move_len, i) ==
    LET test_angle == move_angle + SlideProbes[i].side * SlideProbes[i].offset_deg
        speed_scale == Cos(SlideProbes[i].offset_deg)
    IN  << p[1] + Quot(Quot(Cos(test_angle) * move_len, 1000) * speed_scale, 1000),
           p[2] + Quot(Quot(Sin(test_angle) * move_len, 1000) * speed_scale, 1000) >>

\* the probes of _slide_move, were it to give up after four of them
FreeProbesUpToFour(w, p, h, move_angle, move_len) ==
    { i \in 1..4 : LET t == ProbeAt(p, move_angle, move_len, i)
                   IN  ~TestPosition(w, t[1], t[2], p[3], h).blocked }

\* the probes of _slide_move whose position is not wall-blocked
FreeProbes(w, p, h, move_angle, move_len) ==
    { i \in 1..18 : LET t == ProbeAt(p, move_angle, move_len, i)
                    IN  ~TestPosition(w, t[1], t[2], p[3], h).blocked }

\* _slide_move behind a blocked destination that keeps the velocity when every
\* probe is blocked
SlideBlockedKeepVelocity(p, v, normal, contacts, move_angle, move_len, free) ==
    IF free # {} THEN
        LET first == CHOOSE i \in free : \A j \in free : i <= j
            to == SlideAt(p, move_angle, move_len, first)
        IN  [x |-> to[1], y |-> to[2], vx |-> v[1], vy |-> v[2], moving |-> TRUE,
             dest_free |-> FALSE, blocked |-> TRUE, normal |-> normal,
             contacts |-> contacts, found_slide |-> TRUE, probes |-> first,
             end_tested |-> (to = ProbeAt(p, move_angle, move_len, first))]
    ELSE
        [x |-> p[1], y |-> p[2], vx |-> v[1], vy |-> v[2], moving |-> TRUE,
         dest_free |-> FALSE, blocked |-> TRUE, normal |-> normal,
         contacts |-> contacts, found_slide |-> FALSE, probes |-> 18,
         end_tested |-> TRUE]

\* _slide_move behind a blocked destination: slide along the first free probe,
\* or stop when every probe is blocked
SlideBlocked(p, v, normal, contacts, move_angle, move_len, free) ==
    IF free # {} THEN
        LET first == CHOOSE i \in free : \A j \in free : i <= j
            to == SlideAt(p, move_angle, move_len, first)
        IN  [x |-> to[1], y |-> to[2], vx |-> v[1], vy |-> v[2], moving |-> TRUE,
             dest_free |-> FALSE, blocked |-> TRUE, normal |-> normal,
             contacts |-> contacts, found_slide |-> TRUE, probes |-> first,
             end_tested |-> (to = ProbeAt(p, move_angle, move_len, first))]
    ELSE
        [x |-> p[1], y |-> p[2], vx |-> 0, vy |-> 0, moving |-> TRUE,
         dest_free |-> FALSE, blocked |-> TRUE, normal |-> normal,
         contacts |-> contacts, found_slide |-> FALSE, probes |-> 18,
         end_tested |-> TRUE]

\* _slide_move, horizontal part, given the result dest of the wall-overlap test
\* at the destination and the contacts there
SlideHorizontalFrom(w, p, v, h, dt, dest, contacts) ==
    LET move_x == v[1] * dt
        move_y == v[2] * dt
        still == [x |-> p[1], y |-> p[2], vx |-> v[1], vy |-> v[2],
                  moving |-> FALSE, dest_free |-> ~dest.blocked, blocked |-> FALSE,
                  normal |-> <<0, 0, 0>>, contacts |-> contacts,
                  found_slide |-> FALSE, probes |-> 0, end_tested |-> TRUE]
    IN  IF ~MovingEnough(move_x, move_y) THEN still
        ELSE IF ~dest.blocked THEN
            [still EXCEPT !.x = p[1] + move_x, !.y = p[2] + move_y, !.moving = TRUE]
        ELSE SlideBlocked(p, v, dest.normal, contacts, Atan2(v[2], v[1]),
                          Quot(ISqrt(100 * (v[1] * v[1] + v[2] * v[2])) * dt, 10),
                          FreeProbes(w, p, h, Atan2(v[2], v[1]),
                                     Quot(ISqrt(100 * (v[1] * v[1] + v[2] * v[2])) * dt, 10)))

\* Player._slide_move, horizontal part
SlideHorizontal(w, p, v, h, dt) ==
    SlideHorizontalFrom(w, p, v, h, dt,
                        TestPosition(w, p[1] + v[1] * dt, p[2] + v[2] * dt, p[3], h),
                        ContactTest(w, p[1] + v[1] * dt, p[2] + v[2] * dt, p[3], h))

RECURSIVE CeilingSearch(_, _, _, _, _, _, _)
\* binary search of _slide_move: 5 halvings between the start and the blocked height
CeilingSearch(w, x, y, h, low_z, high_z, n) ==
    IF n = 0 THEN low_z
    ELSE LET mid_z == Quot(low_z + high_z, 2)
         IN  IF TestCeiling(w, x, y, mid_z, h)
             THEN CeilingSearch(w, x, y, h, low_z, mid_z, n - 1)
             ELSE CeilingSearch(w, x, y, h, mid_z, high_z, n - 1)

\* the vertical part of _slide_move without its ceiling test
SlideVerticalUnclamped(w, x, y, z, vz, h, dt) == [z |-> z + vz * dt, vz |-> vz]

\* Player._slide_move, vertical part
SlideVertical(w, x, y, z, vz, h, dt) ==
    IF vz > 0 THEN
        LET new_z == z + vz * dt
        IN  IF TestCeiling(w, x, y, new_z, h)
            THEN [z |-> CeilingSearch(w, x, y, h, z, new_z, 5), vz |-> 0]
            ELSE [z |-> new_z, vz |-> vz]
    ELSE [z |-> z + vz * dt, vz |-> vz]

\* Player._slide_move, given the result hm of its horizontal part
SlideMoveFrom(w, p, v, h, dt, hm) ==
    LET vm == SlideVertical(w, hm.x, hm.y, p[3], v[3], h, dt)
    IN  [pos |-> <<hm.x, hm.y, vm.z>>, vel |-> <<hm.vx, hm.vy, vm.vz>>, h |-> hm]

\* Player._slide_move
SlideMove(w, p, v, h, dt) == SlideMoveFrom(w, p, v, h, dt, SlideHorizontal(w, p, v, h, dt))

\* center + 8 points around the capsule edge, at radius * 0.8
GroundRayOffsets ==
    [i \in 1..9 |-> IF i = 1 THEN <<0, 0>>
                    ELSE << Quot(Cos(45 * (i - 2)) * Quot(radius * 8, 10), 1000),
                            Quot(Sin(45 * (i - 2)) * Quot(radius * 8, 10), 1000) >>]

\* _check_ground reporting ground only on the ticks it snaps
CheckGroundSnapOnly(w, p, v) ==
    LET rays == [i \in 1..9 |->
                    RayTestDown(w, p[1] + GroundRayOffsets[i][1], p[2] + GroundRayOffsets[i][2],
                                p[3] + RayUp, p[3] - RayDown)]
        valid == { i \in 1..9 : rays[i].hit /\ rays[i].n[3] >= max_slope }
        best == CHOOSE i \in valid : \A j \in valid : rays[i].z >= rays[j].z
    IN  IF valid # {} /\ p[3] < rays[best].z
        THEN [pos |-> <<p[1], p[2], rays[best].z>>, vel |-> <<v[1], v[2], 0>>,
              grounded |-> TRUE]
        ELSE [pos |-> p, vel |-> v, grounded |-> FALSE]

\* _check_ground leaving a mover above its highest valid hit ungrounded
CheckGroundAtOrBelow(w, p, v) ==
    LET rays == [i \in 1..9 |->
                    RayTestDown(w, p[1] + GroundRayOffsets[i][1], p[2] + GroundRayOffsets[i][2],
                                p[3] + RayUp, p[3] - RayDown)]
        valid == { i \in 1..9 : rays[i].hit /\ rays[i].n[3] >= max_slope }
        best == CHOOSE i \in valid : \A j \in valid : rays[i].z >= rays[j].z
    IN  IF valid # {} /\ p[3] <= rays[best].z
        THEN [pos |-> <<p[1], p[2], rays[best].z>>, vel |-> <<v[1], v[2], 0>>,
              grounded |-> TRUE]
        ELSE [pos |-> p, vel |-> v, grounded |-> FALSE]

\* Player._check_ground
CheckGround(w, p, v) ==
    LET rays == [i \in 1..9 |->
                    RayTestDown(w, p[1] + GroundRayOffsets[i][1], p[2] + GroundRayOffsets[i][2],
                                p[3] + RayUp, p[3] - RayDown)]
        valid == { i \in 1..9 : rays[i].hit /\ rays[i].n[3] >= max_slope }
        best == CHOOSE i \in valid : \A j \in valid : rays[i].z >= rays[j].z
        best_ground_z == rays[best].z
    IN  IF valid # {} THEN
            IF p[3] < best_ground_z
            THEN [pos |-> <<p[1], p[2], best_ground_z>>, vel |-> <<v[1], v[2], 0>>,
                  grounded |-> TRUE]
            ELSE [pos |-> p, vel |-> v, grounded |-> TRUE]
        ELSE [pos |-> p, vel |-> v, grounded |-> FALSE]

-----------------------------------------------------------------------------
(* Inputs and bounds *)

MaxTicks == 2

\* updates are explored while the mover is within this distance of the origin
MaxRange == 5000000

\* frame times in ms
MoverDts == {1, 100, 1000}

StartPositions == { <<0, 0, 0>> }

\* input_handler state seen by Player.handle_input
NoKeys == [control |-> FALSE, shift |-> FALSE, space |-> FALSE, v |-> FALSE, turn |-> 0]

HandleInputs ==
    { NoKeys,
      [NoKeys EXCEPT !.control = TRUE],
      [NoKeys EXCEPT !.space = TRUE, !.shift = TRUE] }

\* input_handler state seen by Player.update: w/s (my), d/a (mx), space/control (mz), shift
UpdateInputs ==
    { [mx |-> 0, my |-> 0, mz |-> 0,  shift |-> FALSE],
      [mx |-> 1, my |-> 0, mz |-> 0,  shift |-> FALSE],
      [mx |-> 1, my |-> 1, mz |-> 0,  shift |-> FALSE],
      [mx |-> 0, my |-> 0, mz |-> -1, shift |-> TRUE] }

NoSlide == [x |-> 0, y |-> 0, vx |-> 0, vy |-> 0, moving |-> FALSE, dest_free |-> TRUE,
            blocked |-> FALSE, normal |-> <<0, 0, 0>>, contacts |-> << >>,
            found_slide |-> FALSE, probes |-> 0, end_tested |-> TRUE]

\* history of the last operation: its name, dt, the state it started from, the
\* position and velocity handed to _slide_move, what the horizontal move found
\* and the position and velocity _slide_move left
NoLast == [op |-> "init", dt |-> 0, pre_pos |-> <<0, 0, 0>>, pre_grounded |-> FALSE,
           pre_vel |-> <<0, 0, 0>>, fresh |-> TRUE, pre_fresh |-> FALSE, stepped |-> FALSE,
           move_vel |-> <<0, 0, 0>>, moved_pos |-> <<0, 0, 0>>, h |-> NoSlide,
           step_pos |-> <<0, 0, 0>>, moved_vel |-> <<0, 0, 0>>]

-----------------------------------------------------------------------------
(* Player operations *)

\* Player.__init__ (and the world it is placed in)
MoverInit ==
    /\ world \in { w.name : w \in Worlds }
    /\ position \in StartPositions
    /\ initial_position = position
    /\ frame_dt \in MoverDts
    /\ velocity = <<0, 0, 0>>
    /\ is_grounded = FALSE
    /\ looking = FALSE
    /\ noclip_mode = FALSE
    /\ is_crouching = FALSE
    /\ is_sprinting = FALSE
    /\ current_height = height
    /\ heading = initial_heading
    /\ body_attached = 1
    /\ ticks = 0
    /\ last = NoLast

\* Player.current_speed
CurrentSpeed(crouching, sprinting) ==
    IF crouching THEN crouch_speed
    ELSE IF sprinting THEN sprint_speed
    ELSE jog_speed

\* the Player has not been destroyed
Live == last.op # "destroy"

\* Player.toggle_noclip, as an update of (noclip_mode, velocity, is_grounded, body_attached)
ToggleNoclipState(st) ==
    IF ~st.noclip
    THEN [st EXCEPT !.noclip = TRUE, !.attached = st.attached - 1, !.vel = <<0, 0, 0>>]
    ELSE [st EXCEPT !.noclip = FALSE, !.attached = st.attached + 1, !.grounded = FALSE]

\* Player.toggle_noclip (console command 'noclip')
ToggleNoclip ==
    LET st == ToggleNoclipState([noclip |-> noclip_mode, vel |-> velocity,
                              grounded |-> is_grounded, attached |-> body_attached])
    IN  /\ Live
        /\ noclip_mode' = st.noclip
        /\ velocity' = st.vel
        /\ is_grounded' = st.grounded
        /\ body_attached' = st.attached
        /\ last' = [NoLast EXCEPT !.op = "other", !.fresh = last.fresh]
        /\ UNCHANGED <<position, looking, is_crouching, is_sprinting, current_height,
                       heading, world, ticks, initial_position, frame_dt>>
        /\ UNCHANGED <<spiderVars, handlerVars, padVars>>

\* Player.handle_input
HandleInput(inp) ==
    LET crouching == IF inp.control THEN TRUE
                     ELSE IF is_crouching /\ CanUncrouch(World(world), position) THEN FALSE
                     ELSE is_crouching
        jump == inp.space /\ is_grounded
        afterJump == [noclip |-> noclip_mode,
                      vel |-> IF jump THEN <<velocity[1], velocity[2], jump_force>> ELSE velocity,
                      grounded |-> IF jump THEN FALSE ELSE is_grounded,
                      attached |-> body_attached]
        st == IF inp.v THEN ToggleNoclipState(afterJump) ELSE afterJump
    IN  /\ Live
        /\ looking' = TRUE
        /\ heading' = (heading - inp.turn) % 360
        /\ is_crouching' = crouching
        /\ is_sprinting' = (inp.shift /\ ~crouching)
        /\ noclip_mode' = st.noclip
        /\ velocity' = st.vel
        /\ is_grounded' = st.grounded
        /\ body_attached' = st.attached
        /\ last' = [NoLast EXCEPT !.op = "other", !.fresh = last.fresh]
        /\ UNCHANGED <<position, current_height, world, ticks, initial_position, frame_dt>>
        /\ UNCHANGED <<spiderVars, handlerVars, padVars>>

\* reset leaving the body of a noclipping player out of the physics world
ResetNoReattach ==
    /\ Live
    /\ position' = initial_position
    /\ velocity' = <<0, 0, 0>>
    /\ current_height' = height
    /\ is_grounded' = FALSE
    /\ is_crouching' = FALSE
    /\ is_sprinting' = FALSE
    /\ noclip_mode' = FALSE
    /\ body_attached' = body_attached
    /\ last' = [NoLast EXCEPT !.op = "other"]
    /\ heading' = initial_heading
    /\ UNCHANGED <<looking, world, ticks, initial_position, frame_dt>>
    /\ UNCHANGED <<spiderVars, handlerVars, padVars>>

\* Player.reset (position=None, rotation=None)
Reset ==
    /\ Live
    /\ position' = initial_position
    /\ velocity' = <<0, 0, 0>>
    /\ current_height' = height
    /\ is_grounded' = FALSE
    /\ is_crouching' = FALSE
    /\ is_sprinting' = FALSE
    /\ noclip_mode' = FALSE
    /\ body_attached' = IF noclip_mode THEN body_attached + 1 ELSE body_attached
    /\ last' = [NoLast EXCEPT !.op = "other"]
    /\ heading' = initial_heading
    /\ UNCHANGED <<looking, world, ticks, initial_position, frame_dt>>
    /\ UNCHANGED <<spiderVars, handlerVars, padVars>>

\* the gravity step with a terminal velocity of 30 m/s
FallTerminal(v, dt) == <<v[1], v[2], Max(v[3] + Quot(gravity * dt, 1000), -3000)>>

\* gravity step: self.velocity.z += self.gravity * dt
Fall(v, dt) == <<v[1], v[2], v[3] + Quot(gravity * dt, 1000)>>

\* what an update reports after _slide_move (sm) and _check_ground (cg)
StepResult(p, sm, cg, v, h) ==
    [pos |-> cg.pos, vel |-> cg.vel, grounded |-> cg.grounded, height |-> h,
     stepped |-> TRUE, move_vel |-> v, moved_pos |-> sm.pos, h |-> sm.h,
     step_pos |-> p, moved_vel |-> sm.vel]

\* _check_ground after a _slide_move that ended as sm
StepFrom(w, p, sm, v, h) == StepResult(p, sm, CheckGround(w, sm.pos, sm.vel), v, h)

\* _slide_move followed by _check_ground, with what they found
Step(w, p, v, h, dt) == StepFrom(w, p, SlideMove(w, p, v, h, dt), v, h)

\* Player.update before the first mouse input (not self.looking)
UpdateNotLooking(dt) ==
    IF ~noclip_mode
    THEN Step(World(world), position, IF ~is_grounded THEN Fall(velocity, dt) ELSE velocity,
              current_height, dt)
    ELSE [pos |-> position, vel |-> velocity, grounded |-> is_grounded,
          height |-> current_height, stepped |-> FALSE, move_vel |-> velocity,
          moved_pos |-> position, h |-> NoSlide, step_pos |-> position,
          moved_vel |-> velocity]

\* Player.update in noclip mode: fly along the camera axes (level camera,
\* pitch 0), no collision
UpdateNoclip(dt, inp) ==
    LET dx == Quot(-Sin(heading) * inp.my + Cos(heading) * inp.mx, 1000)
        dy == Quot(Cos(heading) * inp.my + Sin(heading) * inp.mx, 1000)
        dz == inp.mz
        len == ISqrt(1000000 * (dx * dx + dy * dy + dz * dz))
        unit(c) == IF len > 0 THEN Quot(c * 1000000, len) ELSE 0
        speed == IF inp.shift THEN noclip_fast_speed ELSE noclip_speed
    IN  [pos |-> << position[1] + Quot(unit(dx) * speed * dt, 1000),
                    position[2] + Quot(unit(dy) * speed * dt, 1000),
                    position[3] + Quot(unit(dz) * speed * dt, 1000) >>,
         vel |-> velocity, grounded |-> is_grounded, height |-> current_height,
         stepped |-> FALSE, move_vel |-> velocity, moved_pos |-> position, h |-> NoSlide,
         step_pos |-> position, moved_vel |-> velocity]

\* Player.update with collision: friction/acceleration, gravity, crouch
\* transition, _slide_move, _check_ground
UpdateWalk(dt, inp) ==
    LET is_moving == inp.mx # 0 \/ inp.my # 0
        diag == IF inp.mx # 0 /\ inp.my # 0 THEN 707 ELSE 1000
        wish_x == Quot(-Sin(heading) * inp.my * diag + Cos(heading) * inp.mx * diag, 1000)
        wish_y == Quot(Cos(heading) * inp.my * diag + Sin(heading) * inp.mx * diag, 1000)
        wish_speed == CurrentSpeed(is_crouching, is_sprinting)
        \* max(speed - drop, 0) / speed with drop = speed * friction * dt
        keep == Max(1000 - friction * dt, 0)
        fr == IF is_grounded
              THEN <<Quot(velocity[1] * keep, 1000), Quot(velocity[2] * keep, 1000)>>
              ELSE <<velocity[1], velocity[2]>>
        current == Quot(fr[1] * wish_x + fr[2] * wish_y, 1000)
        add_speed == IF is_grounded THEN wish_speed - current
                     ELSE Quot(wish_speed * air_control, 10) - current
        accel == Min(Quot((IF is_grounded THEN ground_accel ELSE air_accel) * dt * wish_speed,
                          1000), add_speed)
        acc == IF is_moving /\ add_speed > 0
               THEN <<fr[1] + Quot(wish_x * accel, 1000), fr[2] + Quot(wish_y * accel, 1000)>>
               ELSE fr
        v == IF is_grounded THEN <<acc[1], acc[2], velocity[3]>>
             ELSE Fall(<<acc[1], acc[2], velocity[3]>>, dt)
        target_height == IF is_crouching THEN crouch_height ELSE height
        grown == current_height
                 + Scale(target_height - current_height, crouch_speed_transition * dt, 1000)
        new_height == IF current_height = target_height THEN current_height
                      ELSE IF Abs(grown - target_height) < SnapHeight THEN target_height
                      ELSE grown
        \* in air the head stays where it is and the feet move
        p == IF ~is_grounded
             THEN <<position[1], position[2], position[3] + (current_height - new_height)>>
             ELSE position
    IN  Step(World(world), p, v, new_height, dt)

\* the end of Player.update: the mover takes the outcome r of its branch
UpdateTo(dt, r) ==
    /\ position' = r.pos
    /\ velocity' = r.vel
    /\ is_grounded' = r.grounded
    /\ current_height' = r.height
    /\ last' = [op |-> "update", dt |-> dt, pre_pos |-> position,
                pre_grounded |-> is_grounded, pre_vel |-> velocity,
                fresh |-> FALSE, pre_fresh |-> last.fresh, stepped |-> r.stepped,
                move_vel |-> r.move_vel, moved_pos |-> r.moved_pos, h |-> r.h,
                step_pos |-> r.step_pos, moved_vel |-> r.moved_vel]

\* Player.update
Update(dt, inp) ==
    /\ Live
    /\ ticks < MaxTicks
    /\ \A i \in 1..3 : Abs(position[i]) <= MaxRange
    /\ Abs(current_height) <= MaxRange
    /\ ticks' = ticks + 1
    /\ UpdateTo(dt, IF ~looking THEN UpdateNotLooking(dt)
                    ELSE IF noclip_mode THEN UpdateNoclip(dt, inp)
                    ELSE UpdateWalk(dt, inp))
    /\ UNCHANGED <<looking, noclip_mode, is_crouching, is_sprinting, heading,
                   body_attached, world, initial_position, frame_dt>>
    /\ UNCHANGED <<spiderVars, handlerVars, padVars>>

\* Player.destroy: the body leaves the physics world if it is attached
Destroy ==
    /\ Live
    /\ body_attached' = IF ~noclip_mode THEN body_attached - 1 ELSE body_attached
    /\ last' = [NoLast EXCEPT !.op = "destroy", !.fresh = last.fresh]
    /\ UNCHANGED <<position, velocity, is_grounded, looking, noclip_mode, is_crouching,
                   is_sprinting, current_height, heading, world, ticks, initial_position,
                   frame_dt>>
    /\ UNCHANGED <<spiderVars, handlerVars, padVars>>

MoverNext ==
    \/ \E inp \in HandleInputs : HandleInput(inp)
    \/ \E inp \in UpdateInputs : Update(frame_dt, inp)
    \/ Reset
    \/ ToggleNoclip
    \/ Destroy

-----------------------------------------------------------------------------
(* FaceSpider tuning (FaceSpider.__init__), in mm, mm/s and ms *)

idle_radius == 10000
pounce_radius == 4000
pounce_distance == 4000
pounce_cooldown == 2000
can_pounce == TRUE
walk_speed == 2000
pounce_duration == 400
pounce_arc_height == 1500
pounce_backtrack_distance == 1500
pounce_backtrack_speed == 2000
pounce_damage == 10
spider_gravity == 20000
ground_offset == 10
hit_sphere_radius == 200
hit_sphere_vertical_offset == -100
player_radius == 300        \* getattr(self.target, 'radius', 0.3)
player_height == 1800       \* getattr(self.target, '_current_height', 1.8)
DirEpsilon == 10            \* 0.01 m, shortest planar distance with a direction
WallReach == 300            \* 0.3 m added to the forward ray
BodyHeight == 500           \* 0.5 m, height of the forward ray above the feet
ProbeUp == 1000             \* 1.0 m, _raycast_down starts this far above
ProbeDown == 100000         \* max_dist=100.0 of _raycast_down
LandTolerance == 100        \* 0.1 m landing tolerance at the end of the arc
WallNormalLimit == 50       \* abs(hit_normal.z) < 0.5 is a wall
BacktrackReached == 100     \* 0.1 m, backtrack target reached
WanderReached == 200        \* 0.2 m, wander target reached
ChaseReached == 100         \* 0.1 m, no chase step this close
GroundSlack == 10           \* 0.01 m above ground counts as standing
CloseDistance == 1000       \* 1.0 m, chase stops here when pouncing is off
HeadOffset == 200           \* 0.2 m below the top of the target
PounceAnimMs == 1000        \* get_duration('pounce') of the model's animation

None == << >>

STATE_IDLE == "idle"
STATE_WALK == "walk"
STATE_ATTACK == "attack"
STATE_HURT == "hurt"
STATE_DEATH == "death"

\* CreatureEntity.__init__: self.max_health = 100
max_health == 100

\* 1000 * sin(pi * k / 8), k = 0..8
SinPiTable == << 0, 383, 707, 924, 1000, 924, 707, 383, 0 >>

\* the arc written with sin(t * pi / 2), which peaks at the end of the leap
ArcHeightHalfTurn(t_ms) ==
    Quot(pounce_arc_height * SinPiTable[(t_ms * 4) \div pounce_duration + 1], 1000)

\* self._pounce_arc_height * math.sin(t * math.pi), t = t_ms / pounce_duration
ArcHeight(t_ms) == Quot(pounce_arc_height * SinPiTable[(t_ms * 8) \div pounce_duration + 1], 1000)

-------------------------------------------------------------------------------------------------------------------------------------------------
(* The physics world queried by the spider: a ground height per place and at  *)
(* most one vertical wall plane per axis (walls_x, walls_y hold its           *)
(* coordinate), whose reported normal has z component wall_nz (x100).  No     *)
(* other creature stands in the scene.                                        *)

Terrains ==
    { [name |-> "flat",  ground |-> "flat",  edge_x |-> 0,    step_z |-> 0,
       walls_x |-> << >>,     walls_y |-> << >>,    wall_nz |-> 0],
      [name |-> "void",  ground |-> "none",  edge_x |-> 0,    step_z |-> 0,
       walls_x |-> << >>,     walls_y |-> << >>,    wall_nz |-> 0],
      [name |-> "cliff", ground |-> "cliff", edge_x |-> 2500, step_z |-> 0,
       walls_x |-> << >>,     walls_y |-> << >>,    wall_nz |-> 0],
      [name |-> "ledge", ground |-> "ledge", edge_x |-> 2500, step_z |-> 400,
       walls_x |-> << >>,     walls_y |-> << >>,    wall_nz |-> 0],
      [name |-> "wallx", ground |-> "flat",  edge_x |-> 0,    step_z |-> 0,
       walls_x |-> << 1500 >>, walls_y |-> << >>,   wall_nz |-> 0],
      [name |-> "wally", ground |-> "flat",  edge_x |-> 0,    step_z |-> 0,
       walls_x |-> << >>,     walls_y |-> << 200 >>, wall_nz |-> 0] }

TerrainByName == [name \in { w.name : w \in Terrains } |-> CHOOSE w \in Terrains : w.name = name]

\* the ground surface at (x, y): <<exists, z>>; the cliff ends and the ledge
\* begins at edge_x
GroundAt(tr, x, y) ==
    IF tr.ground = "none" THEN <<FALSE, 0>>
    ELSE IF tr.ground = "cliff" THEN (IF x < tr.edge_x THEN <<TRUE, 0>> ELSE <<FALSE, 0>>)
    ELSE IF tr.ground = "ledge" THEN (IF x < tr.edge_x THEN <<TRUE, 0>> ELSE <<TRUE, tr.step_z>>)
    ELSE <<TRUE, 0>>

\* a downward probe that reports a floor at height 0 where there is no ground
RaycastDownFloor(tr, pos) ==
    LET g == GroundAt(tr, pos[1], pos[2])
    IN  IF g[1] /\ g[2] <= pos[3] + ProbeUp /\ g[2] >= pos[3] - ProbeDown
        THEN [hit |-> TRUE, z |-> g[2]]
        ELSE [hit |-> TRUE, z |-> 0]

\* FaceSpider._raycast_down: [hit, z] of the ground under pos, seen from 1 m above it
RaycastDown(tr, pos) ==
    LET g == GroundAt(tr, pos[1], pos[2])
    IN  IF g[1] /\ g[2] <= pos[3] + ProbeUp /\ g[2] >= pos[3] - ProbeDown
        THEN [hit |-> TRUE, z |-> g[2]]
        ELSE [hit |-> FALSE, z |-> 0]

\* distance along a ray from coordinate f with direction component u (x1000) to
\* the wall plane in ws, or -1 if the ray of length dist does not reach one
PlaneAlong(f, u, dist, ws) ==
    IF ws = << >> \/ u = 0 THEN -1
    ELSE LET along == Quot((ws[1] - f) * 1000, u)
         IN  IF (ws[1] - f) * u > 0 /\ along <= dist THEN along ELSE -1

\* FaceSpider._raycast_forward: True iff the closest hit of the ray at body
\* height is a wall (mostly vertical normal) and not the player's body
RaycastForward(tr, tgt, from_pos, direction, dist) ==
    LET ax == PlaneAlong(from_pos[1], direction[1], dist, tr.walls_x)
        ay == PlaneAlong(from_pos[2], direction[2], dist, tr.walls_y)
        wall == IF ax >= 0 /\ (ay < 0 \/ ax <= ay) THEN ax ELSE ay
        \* the player's capsule on the ray
        rx == tgt.pos[1] - from_pos[1]
        ry == tgt.pos[2] - from_pos[2]
        along == Quot(rx * direction[1] + ry * direction[2], 1000)
        perp2 == rx * rx + ry * ry - along * along
        body == IF /\ tgt.present
                   /\ perp2 <= player_radius * player_radius
                   /\ along >= 0 /\ along - player_radius <= dist
                   /\ tgt.pos[3] <= from_pos[3] + BodyHeight
                   /\ from_pos[3] + BodyHeight <= tgt.pos[3] + player_height
                THEN Max(along - player_radius, 0) ELSE -1
    IN  /\ wall >= 0
        /\ ~(body >= 0 /\ body <= wall)
        /\ Abs(tr.wall_nz) < WallNormalLimit

-----------------------------------------------------------------------------
(* FaceSpider operations on the record of its fields *)

\* FaceSpider.set_state (force=False)
SetState(s, new_state) ==
    IF new_state = s.state THEN s
    ELSE [s EXCEPT !.state = new_state, !.state_time = 0]

Inf == 1000000000       \* float('inf'), farther than every radius

\* FaceSpider.get_distance_to_target: horizontal distance only
DistanceToTarget(s, tgt) ==
    IF ~tgt.present THEN Inf ELSE
    ISqrt((tgt.pos[1] - s.pos[1]) * (tgt.pos[1] - s.pos[1])
          + (tgt.pos[2] - s.pos[2]) * (tgt.pos[2] - s.pos[2]))

\* FaceSpider._intersects_player: hit sphere against the player's capsule axis
IntersectsPlayer(s, tgt) ==
    LET cz == s.pos[3] + hit_sphere_radius + hit_sphere_vertical_offset
        bottom == tgt.pos[3] + player_radius
        axis_len == player_height - 2 * player_radius
        t == Max(0, Min(axis_len, cz - bottom))
        dx == s.pos[1] - tgt.pos[1]
        dy == s.pos[2] - tgt.pos[2]
        dz == cz - (bottom + t)
        reach == player_radius + hit_sphere_radius
    IN  tgt.present /\ dx * dx + dy * dy + dz * dz < reach * reach

\* _start_pounce_to leaping the full distance along the default direction when
\* the target coincides with the start
StartPounceFullLeap(s, target_pos, is_attack) ==
    LET start == s.pos
        dx == target_pos[1] - start[1]
        dy == target_pos[2] - start[2]
        dist == ISqrt(dx * dx + dy * dy)
        far == dx * dx + dy * dy > DirEpsilon * DirEpsilon
        direction == IF far THEN <<Quot(dx * 1000, dist), Quot(dy * 1000, dist), 0>>
                     ELSE <<0, 1000, 0>>
        travel == IF far THEN Min(pounce_distance, dist) ELSE pounce_distance
    IN  [s EXCEPT !.is_pouncing = TRUE,
                  !.pounce_airborne = FALSE,
                  !.pounce_falling = FALSE,
                  !.pounce_hit_player = FALSE,
                  !.pounce_is_attack = is_attack,
                  !.pounce_start_pos = start,
                  !.pounce_direction = direction,
                  !.pounce_target_pos =
                      << start[1] + Quot(direction[1] * travel, 1000),
                         start[2] + Quot(direction[2] * travel, 1000),
                         start[3] >>,
                  !.pounce_progress = 0,
                  !.pounce_velocity_z = 0,
                  !.velocity_z = 0,
                  !.state = STATE_ATTACK,
                  !.state_time = IF s.state = STATE_ATTACK THEN s.state_time ELSE 0,
                  !.pounce_timer = pounce_cooldown]

\* _start_pounce_to without the clamp of the travel to pounce_distance
StartPounceUnclamped(s, target_pos, is_attack) ==
    LET start == s.pos
        dx == target_pos[1] - start[1]
        dy == target_pos[2] - start[2]
        dist == ISqrt(dx * dx + dy * dy)
        direction == <<Quot(dx * 1000, dist), Quot(dy * 1000, dist), 0>>
        travel == dist
        far == dx * dx + dy * dy > DirEpsilon * DirEpsilon
    IN  [s EXCEPT !.is_pouncing = TRUE,
                  !.pounce_airborne = FALSE,
                  !.pounce_falling = FALSE,
                  !.pounce_hit_player = FALSE,
                  !.pounce_is_attack = is_attack,
                  !.pounce_start_pos = start,
                  !.pounce_direction = IF far THEN direction ELSE <<0, 1000, 0>>,
                  !.pounce_target_pos =
                      IF far THEN << start[1] + Quot(direction[1] * travel, 1000),
                                     start[2] + Quot(direction[2] * travel, 1000),
                                     start[3] >>
                      ELSE start,
                  !.pounce_progress = 0,
                  !.pounce_velocity_z = 0,
                  !.velocity_z = 0,
                  !.state = STATE_ATTACK,
                  !.state_time = IF s.state = STATE_ATTACK THEN s.state_time ELSE 0,
                  !.pounce_timer = pounce_cooldown]

\* FaceSpider._start_pounce_to
StartPounceInternal(s, target_pos, is_attack) ==
    LET start == s.pos
        dx == target_pos[1] - start[1]
        dy == target_pos[2] - start[2]
        dist == ISqrt(dx * dx + dy * dy)
        direction == <<Quot(dx * 1000, dist), Quot(dy * 1000, dist), 0>>
        travel == Min(pounce_distance, dist)
        far == dx * dx + dy * dy > DirEpsilon * DirEpsilon
    IN  [s EXCEPT !.is_pouncing = TRUE,
                  !.pounce_airborne = FALSE,
                  !.pounce_falling = FALSE,
                  !.pounce_hit_player = FALSE,
                  !.pounce_is_attack = is_attack,
                  !.pounce_start_pos = start,
                  !.pounce_direction = IF far THEN direction ELSE <<0, 1000, 0>>,
                  !.pounce_target_pos =
                      IF far THEN << start[1] + Quot(direction[1] * travel, 1000),
                                     start[2] + Quot(direction[2] * travel, 1000),
                                     start[3] >>
                      ELSE start,
                  !.pounce_progress = 0,
                  !.pounce_velocity_z = 0,
                  !.velocity_z = 0,
                  !.state = STATE_ATTACK,
                  !.state_time = IF s.state = STATE_ATTACK THEN s.state_time ELSE 0,
                  !.pounce_timer = pounce_cooldown]

\* FaceSpider._get_target_head_position
HeadPosition(tgt) == <<tgt.pos[1], tgt.pos[2], tgt.pos[3] + player_height - HeadOffset>>

\* start_pounce held back by a pounce in progress only, not by the cooldown
StartPounceNoCooldown(s, tgt) ==
    IF s.is_pouncing THEN s
    ELSE IF ~tgt.present THEN s
    ELSE StartPounceInternal(s, HeadPosition(tgt), TRUE)

\* FaceSpider.start_pounce: aim at the target's head
StartPounceOp(s, tgt) ==
    IF s.pounce_timer > 0 \/ s.is_pouncing THEN s
    ELSE IF ~tgt.present THEN s
    ELSE StartPounceInternal(s, HeadPosition(tgt), TRUE)

\* start_pounce_to without its guard
StartPounceToUnguarded(s, target_pos) == StartPounceInternal(s, target_pos, FALSE)

\* FaceSpider.start_pounce_to
StartPounceToOp(s, target_pos) ==
    IF s.pounce_timer > 0 \/ s.is_pouncing THEN s
    ELSE StartPounceInternal(s, target_pos, FALSE)

\* FaceSpider._land
Land(s) ==
    LET landed == [s EXCEPT !.is_pouncing = FALSE, !.pounce_airborne = FALSE,
                            !.pounce_falling = FALSE, !.velocity_z = 0]
        d == s.pounce_direction
    IN  IF s.pounce_hit_player /\ d # None
        THEN [landed EXCEPT
                !.backtrack_target =
                    << s.pos[1] - Quot(d[1] * pounce_backtrack_distance, 1000),
                       s.pos[2] - Quot(d[2] * pounce_backtrack_distance, 1000),
                       s.pos[3] >>,
                !.backtrack_direction = <<-d[1], -d[2], 0>>,
                !.is_backtracking = TRUE]
        ELSE landed

\* the falling branch of update_pounce without gravity
PounceFallWeightless(s, dt, tr) ==
    LET vz == s.pounce_velocity_z
        new_z == s.pos[3] + Quot(vz * dt, 1000)
        ground == RaycastDown(tr, s.pos)
    IN  IF ground.hit /\ new_z <= ground.z + ground_offset
        THEN Land([s EXCEPT !.pos = <<s.pos[1], s.pos[2], ground.z + ground_offset>>])
        ELSE [s EXCEPT !.pos = <<s.pos[1], s.pos[2], new_z>>]

\* FaceSpider.update_pounce, falling branch
PounceFall(s, dt, tr) ==
    LET vz == s.pounce_velocity_z - Quot(spider_gravity * dt, 1000)
        new_z == s.pos[3] + Quot(vz * dt, 1000)
        ground == RaycastDown(tr, s.pos)
        fallen == [s EXCEPT !.pounce_velocity_z = vz]
    IN  IF ground.hit /\ new_z <= ground.z + ground_offset
        THEN Land([fallen EXCEPT !.pos = <<s.pos[1], s.pos[2], ground.z + ground_offset>>])
        ELSE [fallen EXCEPT !.pos = <<s.pos[1], s.pos[2], new_z>>]

\* the arc position at clamped progress t_ms: [pos, base_z, offset]
ArcPosition(s, t_ms, tr) ==
    LET a == s.pounce_start_pos
        b == s.pounce_target_pos
        flat == << a[1] + Quot((b[1] - a[1]) * t_ms, pounce_duration),
                   a[2] + Quot((b[2] - a[2]) * t_ms, pounce_duration),
                   a[3] + Quot((b[3] - a[3]) * t_ms, pounce_duration) >>
        ground == RaycastDown(tr, flat)
        landing_z == ground.z + ground_offset
        base_z == IF 2 * t_ms > pounce_duration /\ ground.hit
                  THEN a[3] + Quot((landing_z - a[3]) * (2 * t_ms - pounce_duration),
                                   pounce_duration)
                  ELSE a[3]
    IN  [pos |-> <<flat[1], flat[2], base_z + ArcHeight(t_ms)>>, base_z |-> base_z,
         offset |-> ArcHeight(t_ms)]

\* what the forward ray of the arc branch reports for this frame's travel
PounceWallAhead(s, dt, tr, tgt) ==
    LET a == s.pounce_start_pos
        b == s.pounce_target_pos
        length == ISqrt((b[1] - a[1]) * (b[1] - a[1]) + (b[2] - a[2]) * (b[2] - a[2])
                        + (b[3] - a[3]) * (b[3] - a[3]))
        travel_this_frame == Quot(length * dt, pounce_duration)
    IN  RaycastForward(tr, tgt, s.pos, s.pounce_direction, travel_this_frame + WallReach)

\* update_pounce, arc branch, landing at the end of the arc without probing
\* the ground
PounceArcFromNoProbe(s, dt, tr, tgt, t_ms, arc, hit_wall) ==
    LET airborne == s.pounce_airborne \/ 10 * t_ms > 3 * pounce_duration
        new_pos == arc.pos
        advanced == [s EXCEPT !.pounce_progress = s.pounce_progress + dt,
                              !.pounce_airborne = airborne]
        moved == [advanced EXCEPT !.pos = new_pos]
        hits == ~s.pounce_hit_player /\ s.pounce_is_attack /\ IntersectsPlayer(moved, tgt)
        struck == IF hits THEN [moved EXCEPT !.pounce_hit_player = TRUE] ELSE moved
        out(r) == [s |-> r, branch |-> "arc", wall |-> hit_wall,
                   dmg |-> IF hits /\ ~hit_wall THEN 1 ELSE 0, base_z |-> arc.base_z]
    IN  IF hit_wall THEN
            out([advanced EXCEPT !.pounce_falling = TRUE, !.pounce_velocity_z = 0])
        ELSE IF t_ms >= pounce_duration THEN out(Land(struck))
        ELSE out(struck)

\* the arc branch striking the target on every tick it touches it
PounceArcFromRepeatHit(s, dt, tr, tgt, t_ms, arc, hit_wall) ==
    LET airborne == s.pounce_airborne \/ 10 * t_ms > 3 * pounce_duration
        new_pos == arc.pos
        advanced == [s EXCEPT !.pounce_progress = s.pounce_progress + dt,
                              !.pounce_airborne = airborne]
        moved == [advanced EXCEPT !.pos = new_pos]
        hits == s.pounce_is_attack /\ IntersectsPlayer(moved, tgt)
        struck == IF hits THEN [moved EXCEPT !.pounce_hit_player = TRUE] ELSE moved
        ground == RaycastDown(tr, new_pos)
        out(r) == [s |-> r, branch |-> "arc", wall |-> hit_wall,
                   dmg |-> IF hits /\ ~hit_wall THEN 1 ELSE 0, base_z |-> arc.base_z]
    IN  IF hit_wall THEN
            out([advanced EXCEPT !.pounce_falling = TRUE, !.pounce_velocity_z = 0])
        ELSE IF t_ms >= pounce_duration THEN
            IF ground.hit /\ new_pos[3] <= ground.z + ground_offset + LandTolerance
            THEN out(Land([struck EXCEPT
                             !.pos = <<new_pos[1], new_pos[2], ground.z + ground_offset>>]))
            ELSE out([struck EXCEPT !.pounce_falling = TRUE, !.pounce_velocity_z = 0])
        ELSE out(struck)

\* update_pounce, arc branch, given the clamped progress t_ms, the arc position
\* arc there and the report hit_wall of the forward ray
PounceArcFrom(s, dt, tr, tgt, t_ms, arc, hit_wall) ==
    LET airborne == s.pounce_airborne \/ 10 * t_ms > 3 * pounce_duration
        new_pos == arc.pos
        advanced == [s EXCEPT !.pounce_progress = s.pounce_progress + dt,
                              !.pounce_airborne = airborne]
        moved == [advanced EXCEPT !.pos = new_pos]
        hits == ~s.pounce_hit_player /\ s.pounce_is_attack /\ IntersectsPlayer(moved, tgt)
        struck == IF hits THEN [moved EXCEPT !.pounce_hit_player = TRUE] ELSE moved
        ground == RaycastDown(tr, new_pos)
        out(r) == [s |-> r, branch |-> "arc", wall |-> hit_wall,
                   dmg |-> IF hits /\ ~hit_wall THEN 1 ELSE 0, base_z |-> arc.base_z]
    IN  IF hit_wall THEN
            out([advanced EXCEPT !.pounce_falling = TRUE, !.pounce_velocity_z = 0])
        ELSE IF t_ms >= pounce_duration THEN
            IF ground.hit /\ new_pos[3] <= ground.z + ground_offset + LandTolerance
            THEN out(Land([struck EXCEPT
                             !.pos = <<new_pos[1], new_pos[2], ground.z + ground_offset>>]))
            ELSE out([struck EXCEPT !.pounce_falling = TRUE, !.pounce_velocity_z = 0])
        ELSE out(struck)

\* the arc branch clamping its progress at half of the leap
PounceArcHalfClamp(s, dt, tr, tgt) ==
    PounceArcFrom(s, dt, tr, tgt, Min(s.pounce_progress + dt, pounce_duration \div 2),
                  ArcPosition(s, Min(s.pounce_progress + dt, pounce_duration \div 2), tr),
                  PounceWallAhead(s, dt, tr, tgt))

\* FaceSpider.update_pounce, arc branch: [s, branch, wall, dmg, base_z]
PounceArc(s, dt, tr, tgt) ==
    PounceArcFrom(s, dt, tr, tgt, Min(s.pounce_progress + dt, pounce_duration),
                  ArcPosition(s, Min(s.pounce_progress + dt, pounce_duration), tr),
                  PounceWallAhead(s, dt, tr, tgt))

\* update_pounce without its falling branch
UpdatePounceArcOnly(s, dt, tr, tgt) ==
    IF ~s.is_pouncing
    THEN [s |-> s, branch |-> "none", wall |-> FALSE, dmg |-> 0, base_z |-> 0]
    ELSE PounceArc(s, dt, tr, tgt)

\* FaceSpider.update_pounce: [s, branch, wall, dmg, base_z]
UpdatePounceOp(s, dt, tr, tgt) ==
    IF ~s.is_pouncing
    THEN [s |-> s, branch |-> "none", wall |-> FALSE, dmg |-> 0, base_z |-> 0]
    ELSE IF s.pounce_falling
    THEN [s |-> PounceFall(s, dt, tr), branch |-> "fall", wall |-> FALSE, dmg |-> 0,
          base_z |-> 0]
    ELSE PounceArc(s, dt, tr, tgt)

\* the planar unit vector (x1000) from a to b
UnitToward(a, b) ==
    LET dx == b[1] - a[1]
        dy == b[2] - a[2]
        dist == ISqrt(dx * dx + dy * dy)
    IN  <<Quot(dx * 1000, dist), Quot(dy * 1000, dist), 0>>

\* the planar distance from a to b
PlanarDistance(a, b) ==
    ISqrt((b[1] - a[1]) * (b[1] - a[1]) + (b[2] - a[2]) * (b[2] - a[2]))

\* position p moved by length len along the unit vector d
Along(p, d, len) == <<p[1] + Quot(d[1] * len, 1000), p[2] + Quot(d[2] * len, 1000), p[3]>>

StopBacktrack(s) ==
    SetState([s EXCEPT !.is_backtracking = FALSE, !.backtrack_target = None,
                       !.backtrack_direction = None], STATE_IDLE)

\* FaceSpider.update_backtrack
UpdateBacktrack(s, dt, tr, tgt) ==
    IF ~s.is_backtracking THEN s
    ELSE LET dist == PlanarDistance(s.pos, s.backtrack_target)
             move_dist == Min(Quot(pounce_backtrack_speed * dt, 1000), dist)
             new_pos == Along(s.pos, s.backtrack_direction, move_dist)
             ground == RaycastDown(tr, new_pos)
         IN  IF dist < BacktrackReached THEN StopBacktrack(s)
             ELSE IF RaycastForward(tr, tgt, s.pos, s.backtrack_direction,
                                    move_dist + WallReach)
             THEN StopBacktrack(s)
             ELSE IF ground.hit
             THEN [s EXCEPT !.pos = <<new_pos[1], new_pos[2], ground.z + ground_offset>>]
             ELSE StopBacktrack(s)

\* FaceSpider._move_toward_position: [s, reached]
MoveTowardPosition(s, goal, dt, tr, tgt) ==
    LET dist == PlanarDistance(s.pos, goal)
        direction == UnitToward(s.pos, goal)
        step == Quot(walk_speed * dt, 1000)
        new_pos == Along(s.pos, direction, step)
        ground == RaycastDown(tr, new_pos)
    IN  IF dist < WanderReached THEN [s |-> s, reached |-> TRUE]
        ELSE IF RaycastForward(tr, tgt, s.pos, direction, step + WallReach)
        THEN [s |-> s, reached |-> TRUE]
        ELSE IF ~ground.hit THEN [s |-> s, reached |-> TRUE]
        ELSE [s |-> [s EXCEPT !.pos = <<new_pos[1], new_pos[2], ground.z + ground_offset>>],
              reached |-> FALSE]

\* FaceSpider.move_toward_target
MoveTowardTarget(s, dt, stop_distance, tr, tgt) ==
    LET dist == PlanarDistance(s.pos, tgt.pos)
        direction == UnitToward(s.pos, tgt.pos)
        step == Quot(walk_speed * dt, 1000)
        new_pos == Along(s.pos, direction, step)
        ground == RaycastDown(tr, new_pos)
    IN  IF ~tgt.present \/ dist < ChaseReached \/ dist <= stop_distance THEN s
        ELSE IF RaycastForward(tr, tgt, s.pos, direction, step + WallReach) THEN s
        ELSE IF ~ground.hit
        THEN (IF can_pounce /\ s.pounce_timer <= 0 THEN StartPounceOp(s, tgt) ELSE s)
        ELSE [s EXCEPT !.pos = <<new_pos[1], new_pos[2], ground.z + ground_offset>>]

\* the gravity step of update_ai while neither pouncing nor backtracking
ApplyGravity(s, dt, tr) ==
    LET ground == RaycastDown(tr, s.pos)
        ground_z == ground.z + ground_offset
        vz == s.velocity_z - Quot(spider_gravity * dt, 1000)
        z == s.pos[3] + Quot(vz * dt, 1000)
    IN  IF ground.hit
        THEN IF s.pos[3] > ground_z + GroundSlack
             THEN IF z <= ground_z
                  THEN [s EXCEPT !.pos = <<s.pos[1], s.pos[2], ground_z>>, !.velocity_z = 0]
                  ELSE [s EXCEPT !.pos = <<s.pos[1], s.pos[2], z>>, !.velocity_z = vz]
             ELSE [s EXCEPT !.pos = <<s.pos[1], s.pos[2], ground_z>>, !.velocity_z = 0]
        ELSE [s EXCEPT !.pos = <<s.pos[1], s.pos[2], z>>, !.velocity_z = vz]

\* _pick_wander_spot / _pick_pounce_wander_spot: the drawn offset if it has
\* ground, no wall on the way; None when the tries are used up
PickSpot(s, offset, tr, tgt) ==
    LET test_pos == <<s.pos[1] + offset[1], s.pos[2] + offset[2], s.pos[3]>>
        ground == RaycastDown(tr, test_pos)
        dist == PlanarDistance(s.pos, test_pos)
    IN  IF ground.hit /\ ~RaycastForward(tr, tgt, s.pos, UnitToward(s.pos, test_pos), dist)
        THEN <<test_pos[1], test_pos[2], ground.z + ground_offset>>
        ELSE None

\* update_ai, target inside idle_radius and not ignored: chase and pounce
Chase(s, dt, distance, tr, tgt) ==
    LET aware == [s EXCEPT !.is_wandering = FALSE, !.wander_target = None]
    IN  IF can_pounce
        THEN IF distance <= pounce_radius
             THEN IF aware.pounce_timer <= 0 /\ aware.state # STATE_ATTACK
                  THEN StartPounceOp(aware, tgt)
                  ELSE IF aware.state # STATE_IDLE /\ aware.state # STATE_ATTACK
                  THEN SetState(aware, STATE_IDLE)
                  ELSE aware
             ELSE MoveTowardTarget(SetState(aware, STATE_WALK), dt, pounce_radius, tr, tgt)
        ELSE IF distance > CloseDistance
             THEN MoveTowardTarget(SetState(aware, STATE_WALK), dt, CloseDistance, tr, tgt)
             ELSE SetState(aware, STATE_IDLE)

\* update_ai while walking to a wander target: after _move_toward_position
\* returned m
WanderWalk(m, draw) ==
    IF m.reached
    THEN SetState([m.s EXCEPT !.is_wandering = FALSE, !.wander_target = None,
                              !.wander_idle_timer = draw.rest], STATE_IDLE)
    ELSE m.s

\* update_ai choosing what to do next, given the picked leap and walk spots
WanderChoose(s, draw, leap, spot) ==
    IF can_pounce /\ draw.roll /\ s.pounce_timer <= 0 /\ leap # None
    THEN StartPounceToOp(s, leap)
    ELSE IF spot # None
    THEN SetState([s EXCEPT !.wander_target = spot, !.is_wandering = TRUE], STATE_WALK)
    ELSE SetState([s EXCEPT !.wander_idle_timer = draw.long_rest], STATE_IDLE)

\* update_ai, target out of range or ignored: wander.  draw holds this tick's
\* random draws
Wander(s, dt, draw, tr, tgt) ==
    IF s.is_wandering /\ s.wander_target # None
    THEN WanderWalk(MoveTowardPosition(s, s.wander_target, dt, tr, tgt), draw)
    ELSE IF s.wander_idle_timer > 0
    THEN SetState([s EXCEPT !.wander_idle_timer = s.wander_idle_timer - dt], STATE_IDLE)
    ELSE WanderChoose(s, draw, PickSpot(s, draw.leap, tr, tgt),
                      PickSpot(s, draw.walk, tr, tgt))

\* the outcome of an update_ai call that did not run update_pounce
Quiet(s) == [s |-> s, branch |-> "none", wall |-> FALSE, dmg |-> 0, base_z |-> 0]

\* update_ai chasing the target at any distance
RoamChaseOnly(settled, distance, dt, draw, tr, tgt) ==
    IF ~tgt.ignore THEN Chase(settled, dt, distance, tr, tgt)
    ELSE Wander(settled, dt, draw, tr, tgt)

\* update_ai on the ground, after its gravity step left the spider as settled
\* at the given distance from its target
Roam(settled, distance, dt, draw, tr, tgt) ==
    IF ~tgt.ignore /\ distance <= idle_radius
    THEN Chase(settled, dt, distance, tr, tgt)
    ELSE Wander(settled, dt, draw, tr, tgt)

\* update_ai on the ground: the gravity step, then chase or wander
Grounded(settled, dt, draw, tr, tgt) ==
    Roam(settled, DistanceToTarget(settled, tgt), dt, draw, tr, tgt)

\* update_ai after its cooldown step left the spider as timed
UpdateAIFrom(timed, dt, draw, tr, tgt) ==
    IF timed.is_pouncing THEN UpdatePounceOp(timed, dt, tr, tgt)
    ELSE IF timed.is_backtracking THEN Quiet(UpdateBacktrack(timed, dt, tr, tgt))
    ELSE Quiet(Grounded(ApplyGravity(timed, dt, tr), dt, draw, tr, tgt))

\* FaceSpider.update_ai: [s, branch, wall, dmg, base_z]
UpdateAI(s, dt, draw, tr, tgt) ==
    UpdateAIFrom(IF s.pounce_timer > 0 THEN [s EXCEPT !.pounce_timer = s.pounce_timer - dt]
                 ELSE s,
                 dt, draw, tr, tgt)

\* FaceSpider.update, after update_ai: the state once the pounce animation is over
AfterPounce(s, distance) ==
    IF s.is_backtracking THEN s
    ELSE IF s.state = STATE_ATTACK /\ ~s.is_pouncing
            /\ PounceAnimMs > 0 /\ s.state_time >= PounceAnimMs
    THEN IF distance <= pounce_radius THEN SetState(s, STATE_IDLE)
         ELSE IF distance <= idle_radius THEN SetState(s, STATE_WALK)
         ELSE SetState(s, STATE_IDLE)
    ELSE s

\* FaceSpider.update, given the outcome r of CreatureEntity.update
FrameUpdateFrom(r, tgt) == [r EXCEPT !.s = AfterPounce(r.s, DistanceToTarget(r.s, tgt))]

\* FaceSpider.update: CreatureEntity.update, then the state after a pounce
FrameUpdate(s, dt, draw, tr, tgt) ==
    FrameUpdateFrom(UpdateAI([s EXCEPT !.state_time = s.state_time + dt], dt, draw, tr, tgt),
                    tgt)

-----------------------------------------------------------------------------
(* The spider's inputs *)

MaxSpiderTicks == 4

SpiderDts == { 100, 400 }

SpiderStart == <<0, 0, 0>>

Targets ==
    { [name |-> "none",    present |-> FALSE, pos |-> <<0, 0, 0>>,     can_be_hurt |-> FALSE,
       ignore |-> FALSE],
      [name |-> "prey",    present |-> TRUE,  pos |-> <<3000, 0, 0>>,  can_be_hurt |-> TRUE,
       ignore |-> FALSE],
      [name |-> "here",    present |-> TRUE,  pos |-> <<0, 0, 0>>,     can_be_hurt |-> TRUE,
       ignore |-> FALSE],
      [name |-> "mid",     present |-> TRUE,  pos |-> <<6000, 0, 0>>,  can_be_hurt |-> FALSE,
       ignore |-> FALSE],
      [name |-> "far",     present |-> TRUE,  pos |-> <<12000, 0, 0>>, can_be_hurt |-> FALSE,
       ignore |-> FALSE] }

PounceSpots == { <<4000, 0, 0>>, <<5, 0, 0>> }

\* the random draws of one update_ai call
Draws ==
    [ roll : BOOLEAN, leap : { <<3000, 0>> }, walk : { <<3000, 0>> },
      rest : { 1000 }, long_rest : { 1000 } ]

\* history of the last call: its name, the target asked of a start, and for an
\* update the branch of update_pounce taken, what the forward ray reported, the
\* base height of the arc and the calls of take_damage; since is the dt handed
\* to update_ai since the last accepted start (-1 before the first start) and
\* struck the calls of the target's take_damage since that start
NoPounceLog == [op |-> "none", goal |-> None, branch |-> "none", wall |-> FALSE, dmg |-> 0,
                base_z |-> 0, dt |-> 0, since |-> -1, struck |-> 0]

\* the history's struck after a call that took the spider from s to r and the
\* target from tgt to hurt
Struck(s, r, tgt, hurt) ==
    IF ~s.is_pouncing /\ r.is_pouncing THEN 0
    ELSE pounce_log.struck + (hurt.damage_calls - tgt.damage_calls)

\* the history's since after a call that took the spider from s to r and
\* handed ai_dt to update_ai
Since(s, r, ai_dt) ==
    IF ~s.is_pouncing /\ r.is_pouncing THEN 0
    ELSE IF pounce_log.since < 0 THEN -1
    ELSE pounce_log.since + ai_dt

\* FaceSpider.__init__ followed by set_target
SpiderInit ==
    /\ terrain \in { w.name : w \in Terrains }
    /\ \E tg \in Targets : target = [tg EXCEPT !.name = tg.name] @@ [damage_calls |-> 0]
    /\ spider = [ pos |-> SpiderStart,
                  state |-> STATE_IDLE, state_time |-> 0,
                  pounce_timer |-> 0,
                  wander_target |-> None, wander_idle_timer |-> 0, is_wandering |-> FALSE,
                  is_pouncing |-> FALSE,
                  pounce_start_pos |-> None, pounce_target_pos |-> None,
                  pounce_direction |-> None,
                  pounce_progress |-> 0,
                  pounce_airborne |-> FALSE, pounce_falling |-> FALSE,
                  pounce_velocity_z |-> 0,
                  pounce_is_attack |-> FALSE, pounce_hit_player |-> FALSE,
                  is_backtracking |-> FALSE,
                  backtrack_target |-> None, backtrack_direction |-> None,
                  velocity_z |-> 0 ]
    /\ spider_ticks = 0
    /\ pounce_log = NoPounceLog
    /\ health = max_health
    /\ is_alive = TRUE

\* the target after dmg calls of take_damage (only a target that has the method)
Damaged(tgt, dmg) ==
    IF tgt.can_be_hurt THEN [tgt EXCEPT !.damage_calls = @ + dmg] ELSE tgt

\* a call of start_pounce
StartPounce ==
    /\ spider' = StartPounceOp(spider, target)
    /\ pounce_log' = [NoPounceLog EXCEPT !.op = "start",
                                         !.goal = IF target.present THEN HeadPosition(target)
                                                  ELSE None,
                                         !.since = Since(spider, spider', 0),
                                         !.struck = Struck(spider, spider', target, target)]
    /\ UNCHANGED <<target, terrain, spider_ticks, health, is_alive>>
    /\ UNCHANGED <<moverVars, handlerVars, padVars>>

\* a call of start_pounce_to(spot)
StartPounceTo(spot) ==
    /\ spider' = StartPounceToOp(spider, spot)
    /\ pounce_log' = [NoPounceLog EXCEPT !.op = "start", !.goal = spot,
                                         !.since = Since(spider, spider', 0),
                                         !.struck = Struck(spider, spider', target, target)]
    /\ UNCHANGED <<target, terrain, spider_ticks, health, is_alive>>
    /\ UNCHANGED <<moverVars, handlerVars, padVars>>

\* the spider and its target take the outcome r of the call op(dt)
SpiderTo(op, dt, r) ==
    /\ spider' = r.s
    /\ target' = Damaged(target, r.dmg)
    /\ pounce_log' = [op |-> op, goal |-> None, branch |-> r.branch, wall |-> r.wall,
                      dmg |-> r.dmg, base_z |-> r.base_z, dt |-> dt,
                      since |-> Since(spider, r.s, IF op = "update" THEN dt ELSE 0),
                      struck |-> Struck(spider, r.s, target, Damaged(target, r.dmg))]

\* a call of update_pounce(dt)
UpdatePounce(dt) ==
    /\ spider_ticks < MaxSpiderTicks
    /\ SpiderTo("update_pounce", dt,
                UpdatePounceOp(spider, dt, TerrainByName[terrain], target))
    /\ spider_ticks' = spider_ticks + 1
    /\ UNCHANGED <<terrain, health, is_alive>>
    /\ UNCHANGED <<moverVars, handlerVars, padVars>>

\* a call of update(dt), the creature's frame
SpiderUpdate(dt, draw) ==
    /\ spider_ticks < MaxSpiderTicks
    /\ SpiderTo("update", dt, FrameUpdate(spider, dt, draw, TerrainByName[terrain], target))
    /\ spider_ticks' = spider_ticks + 1
    /\ UNCHANGED <<terrain, health, is_alive>>
    /\ UNCHANGED <<moverVars, handlerVars, padVars>>

\* CreatureEntity.take_damage on the spider s with health h: [s, health, is_alive]
TakeDamageOp(s, h, alive, amount) ==
    IF ~alive THEN [s |-> s, health |-> h, is_alive |-> alive]
    ELSE IF h - amount <= 0
    THEN [s |-> SetState(s, STATE_DEATH), health |-> 0, is_alive |-> FALSE]
    ELSE [s |-> SetState(s, STATE_HURT), health |-> h - amount, is_alive |-> TRUE]

\* CreatureEntity.heal
HealOp(h, amount) == Min(h + amount, max_health)

\* the spider takes the outcome r of take_damage
CreatureTo(r) ==
    /\ spider' = r.s
    /\ health' = r.health
    /\ is_alive' = r.is_alive

\* a call of take_damage(amount) on the spider
TakeDamage(amount) ==
    /\ CreatureTo(TakeDamageOp(spider, health, is_alive, amount))
    /\ pounce_log' = [NoPounceLog EXCEPT !.op = "take_damage", !.since = pounce_log.since,
                                         !.struck = pounce_log.struck]
    /\ UNCHANGED <<target, terrain, spider_ticks>>
    /\ UNCHANGED <<moverVars, handlerVars, padVars>>

\* a call of heal(amount) on the spider
Heal(amount) ==
    /\ health' = HealOp(health, amount)
    /\ pounce_log' = [NoPounceLog EXCEPT !.op = "heal", !.since = pounce_log.since,
                                         !.struck = pounce_log.struck]
    /\ UNCHANGED <<spider, is_alive, target, terrain, spider_ticks>>
    /\ UNCHANGED <<moverVars, handlerVars, padVars>>

\* the amounts of damage and of healing tried
Amounts == { 10, 60 }

\* damage, healing and frames of the spider in any order
HealthNext ==
    \/ \E amount \in Amounts : TakeDamage(amount)
    \/ \E amount \in Amounts : Heal(amount)
    \/ \E dt \in SpiderDts, draw \in Draws : SpiderUpdate(dt, draw)

SpiderNext ==
    \/ StartPounce
    \/ \E spot \in PounceSpots : StartPounceTo(spot)
    \/ \E dt \in SpiderDts : UpdatePounce(dt)
    \/ \E dt \in SpiderDts, draw \in Draws : SpiderUpdate(dt, draw)

-----------------------------------------------------------------------------
(* CreatureHandler (area_43/creature_handler.py): creatures kept in a list,  *)
(* found by their index.  IDs count from 0 as in the code; the list is a     *)
(* sequence, so the creature with ID i is at place i + 1.                    *)

\* the most adds explored
MaxCreatures == 4

\* the creatures a scene may add
CreatureKinds == { "spike_monster", "face_spider" }

\* a removed slot (None in the list)
NoCreature == "none"

\* CreatureHandler.add: [creatures, id]
AddOp(cs, c) == [creatures |-> Append(cs, c), id |-> Len(cs)]

\* remove taking the creature out of the list instead of emptying its slot
RemoveByDeleting(cs, id) ==
    IF 0 <= id /\ id < Len(cs)
    THEN [i \in 1..(Len(cs) - 1) |-> IF i <= id THEN cs[i] ELSE cs[i + 1]]
    ELSE cs

\* CreatureHandler.remove
RemoveOp(cs, id) ==
    IF 0 <= id /\ id < Len(cs)
    THEN IF cs[id + 1] # NoCreature THEN [cs EXCEPT ![id + 1] = NoCreature] ELSE cs
    ELSE cs

\* CreatureHandler.get
Get(cs, id) == IF 0 <= id /\ id < Len(cs) THEN cs[id + 1] ELSE NoCreature

\* CreatureHandler.__init__
HandlerInit ==
    /\ creatures = << >>
    /\ handed_out = << >>
    /\ asked_removed = {}

\* the list after add(c), with the ID it returned
HandlerAddTo(c, r) ==
    /\ creatures' = r.creatures
    /\ handed_out' = Append(handed_out, [id |-> r.id, creature |-> c])

\* a call of add(c)
HandlerAdd(c) ==
    /\ Len(creatures) < MaxCreatures
    /\ HandlerAddTo(c, AddOp(creatures, c))
    /\ UNCHANGED asked_removed
    /\ UNCHANGED <<moverVars, spiderVars, padVars>>

\* the IDs the add calls have returned
HandedIds == { handed_out[i].id : i \in 1..Len(handed_out) }

\* a call of remove(id)
HandlerRemove(id) ==
    /\ creatures' = RemoveOp(creatures, id)
    /\ asked_removed' = asked_removed \cup ({id} \cap HandedIds)
    /\ UNCHANGED handed_out
    /\ UNCHANGED <<moverVars, spiderVars, padVars>>

\* add and remove calls in any order; remove is also asked for IDs that were
\* never handed out
HandlerNext ==
    \/ \E c \in CreatureKinds : HandlerAdd(c)
    \/ \E id \in -1..MaxCreatures : HandlerRemove(id)

-----------------------------------------------------------------------------
(* The gamepad (engine/input_handler.py) and the ThirdPersonPlayer's reads   *)
(* of it (area_43/third_person_player.py).  InputHandler starts a thread     *)
(* that applies gamepad events to the handler's attributes; the main thread  *)
(* reads the same attributes, one at a time, during the player's tick.  A    *)
(* step of either thread is one action, so the two interleave freely.        *)
(* Stick values are in thousandths.                                          *)

\* the raw stick range is -32768..32767
StickRange == 32768

\* stick_deadzone = 0.15, in thousandths
stick_deadzone == 150

\* the raw stick states an event may carry: full left, inside the deadzone,
\* full right
StickStates == { -32768, 4000, 32767 }

\* the event codes that reach an attribute the ThirdPersonPlayer reads
PadCodes == { "ABS_X", "ABS_Y", "BTN_SOUTH" }

\* InputHandler._normalize_stick; the quotient's two sides are both divided
\* by 100 to stay within 32 bits
NormalizeStick(value) ==
    IF Abs(value) * 1000 < stick_deadzone * StickRange THEN 0
    ELSE (IF value > 0 THEN 1 ELSE -1)
            * Quot((Abs(value) * 1000 - stick_deadzone * StickRange) * 10,
                   ((1000 - stick_deadzone) * StickRange) \div 100)

\* InputHandler.__init__ and _init_gamepad, with or without a gamepad
\* plugged in; no tick has begun
PadInit ==
    /\ gamepad_available \in BOOLEAN
    /\ left_stick_x = 0
    /\ left_stick_y = 0
    /\ gamepad_buttons = [a |-> FALSE]
    /\ tpp_pc = "idle"
    /\ tpp = [jump_pressed |-> FALSE, stick_x |-> 0, stick_y |-> 0, move_x |-> 0, move_y |-> 0]
    /\ pad_log = [written |-> {}]

\* the history after the gamepad thread handled an event of this code (or
\* cleared the flag): a write counts while a tick is in progress
PadLogged(name) ==
    IF tpp_pc = "idle" THEN pad_log
    ELSE [written |-> pad_log.written \cup {name}]

\* InputHandler._process_gamepad_event, run by the gamepad thread for an
\* event (code, state); the thread runs only while the gamepad is there
ProcessGamepadEvent(code, state) ==
    /\ gamepad_available
    /\ left_stick_x' = IF code = "ABS_X" THEN NormalizeStick(state) ELSE left_stick_x
    /\ left_stick_y' = IF code = "ABS_Y" THEN NormalizeStick(state) ELSE left_stick_y
    /\ gamepad_buttons' = IF code = "BTN_SOUTH" THEN [a |-> (state = 32767)]
                          ELSE gamepad_buttons
    /\ pad_log' = PadLogged(code)
    /\ UNCHANGED <<gamepad_available, tpp_pc, tpp>>
    /\ UNCHANGED <<moverVars, spiderVars, handlerVars>>

\* InputHandler._gamepad_loop when reading the gamepad fails: the thread
\* clears the flag and ends
GamepadLost ==
    /\ gamepad_available
    /\ gamepad_available' = FALSE
    /\ pad_log' = PadLogged("available")
    /\ UNCHANGED <<left_stick_x, left_stick_y, gamepad_buttons, tpp_pc, tpp>>
    /\ UNCHANGED <<moverVars, spiderVars, handlerVars>>

\* ThirdPersonPlayer.handle_input up to its read of is_gamepad_available:
\* the tick begins
HandleInputBegin(space) ==
    /\ tpp_pc = "idle"
    /\ tpp' = [jump_pressed |-> space, stick_x |-> 0, stick_y |-> 0, move_x |-> 0, move_y |-> 0]
    /\ tpp_pc' = IF gamepad_available THEN "button" ELSE "update"
    /\ pad_log' = [written |-> {}]
    /\ UNCHANGED <<gamepad_available, left_stick_x, left_stick_y, gamepad_buttons>>
    /\ UNCHANGED <<moverVars, spiderVars, handlerVars>>

\* ThirdPersonPlayer.handle_input: the read of is_gamepad_button_pressed('a')
HandleInputButton ==
    /\ tpp_pc = "button"
    /\ tpp' = [tpp EXCEPT !.jump_pressed = tpp.jump_pressed \/ gamepad_buttons.a]
    /\ tpp_pc' = "update"
    /\ UNCHANGED <<gamepad_available, left_stick_x, left_stick_y, gamepad_buttons, pad_log>>
    /\ UNCHANGED <<moverVars, spiderVars, handlerVars>>

\* ThirdPersonPlayer.update: the keys, then the read of is_gamepad_available;
\* without a gamepad the tick's reads end here
UpdateBegin(key_x, key_y) ==
    /\ tpp_pc = "update"
    /\ tpp' = [tpp EXCEPT !.move_x = key_x * 1000, !.move_y = key_y * 1000]
    /\ tpp_pc' = IF gamepad_available THEN "stick_x" ELSE "idle"
    /\ UNCHANGED <<gamepad_available, left_stick_x, left_stick_y, gamepad_buttons, pad_log>>
    /\ UNCHANGED <<moverVars, spiderVars, handlerVars>>

\* InputHandler.get_left_stick: the read of left_stick_x
ReadStickX ==
    /\ tpp_pc = "stick_x"
    /\ tpp' = [tpp EXCEPT !.stick_x = left_stick_x, !.move_x = tpp.move_x + left_stick_x]
    /\ tpp_pc' = "stick_y"
    /\ UNCHANGED <<gamepad_available, left_stick_x, left_stick_y, gamepad_buttons, pad_log>>
    /\ UNCHANGED <<moverVars, spiderVars, handlerVars>>

\* InputHandler.get_left_stick: the read of left_stick_y; the tick's reads
\* end
ReadStickY ==
    /\ tpp_pc = "stick_y"
    /\ tpp' = [tpp EXCEPT !.stick_y = left_stick_y, !.move_y = tpp.move_y + left_stick_y]
    /\ tpp_pc' = "idle"
    /\ UNCHANGED <<gamepad_available, left_stick_x, left_stick_y, gamepad_buttons, pad_log>>
    /\ UNCHANGED <<moverVars, spiderVars, handlerVars>>

\* a step of the gamepad thread or of the main thread
PadNext ==
    \/ \E code \in PadCodes, state \in StickStates : ProcessGamepadEvent(code, state)
    \/ GamepadLost
    \/ \E space \in BOOLEAN : HandleInputBegin(space)
    \/ HandleInputButton
    \/ \E key_x, key_y \in {0, 1} : UpdateBegin(key_x, key_y)
    \/ ReadStickX
    \/ ReadStickY

-----------------------------------------------------------------------------
Init == MoverInit /\ SpiderInit /\ HandlerInit /\ PadInit

Next == MoverNext \/ SpiderNext \/ HandlerNext \/ PadNext \/ HealthNext

Spec == Init /\ [][Next]_vars

\* no gamepad plugged in
PadQuiet == PadInit /\ ~gamepad_available

\* the mover alone, beside a spider that is never updated
InitMover ==
    /\ MoverInit /\ SpiderInit /\ HandlerInit /\ PadQuiet
    /\ terrain = "flat" /\ target.name = "none"

SpecMover == InitMover /\ [][MoverNext]_vars

\* the spider alone, beside a mover that is never updated
InitPounce ==
    /\ SpiderInit /\ MoverInit /\ HandlerInit /\ PadQuiet
    /\ world = "open" /\ frame_dt = 100

SpecPounce == InitPounce /\ [][SpiderNext]_vars

\* the spider on flat ground with frames long enough for its cooldown to run
\* out
CooldownDts == { 400, 1000 }

CooldownNext ==
    \/ StartPounce
    \/ \E spot \in PounceSpots : StartPounceTo(spot)
    \/ \E dt \in CooldownDts : UpdatePounce(dt)
    \/ \E dt \in CooldownDts, draw \in Draws : SpiderUpdate(dt, draw)

InitCooldown == InitPounce /\ terrain = "flat" /\ target.name \in {"prey", "far"}

SpecCooldown == InitCooldown /\ [][CooldownNext]_vars

\* the spider on flat ground, hurt and healed between its frames
InitHealth == InitPounce /\ terrain = "flat" /\ target.name \in {"prey", "far"}

SpecHealth == InitHealth /\ [][HealthNext]_vars

\* the creature handler alone
InitHandler == InitMover /\ world = "open" /\ frame_dt = 100

SpecHandler == InitHandler /\ [][HandlerNext]_vars

\* the gamepad thread beside the ThirdPersonPlayer's reads
InitPad ==
    /\ MoverInit /\ SpiderInit /\ HandlerInit /\ PadInit
    /\ terrain = "flat" /\ target.name = "none"
    /\ world = "open" /\ frame_dt = 100

SpecPad == InitPad /\ [][PadNext]_vars

-----------------------------------------------------------------------------
(* Properties of the mover (SpecMover) *)

\* the planar part of the position p
Planar(p) == <<p[1], p[2]>>

\* an update that ran _slide_move and _check_ground has just finished
Stepped == last.op = "update" /\ last.stepped

\* C2 as stated: whenever the destination of a movement step is not
\* wall-blocked, the step changes x and y by exactly v*dt, however small
C2_ExactAdvance ==
    (Stepped /\ last.h.dest_free) =>
        /\ last.moved_pos[1] = last.pre_pos[1] + last.move_vel[1] * last.dt
        /\ last.moved_pos[2] = last.pre_pos[2] + last.move_vel[2] * last.dt

\* C2, amended: with a free destination the step changes x and y by exactly
\* v*dt when the displacement is at least 0.0001 long, and leaves them
\* unchanged when it is shorter
C2_ExactAdvanceAboveThreshold ==
    (Stepped /\ last.h.dest_free) =>
        LET dx == last.move_vel[1] * last.dt
            dy == last.move_vel[2] * last.dt
            long == \/ Abs(dx) >= MoveEpsilon
                    \/ Abs(dy) >= MoveEpsilon
                    \/ dx * dx + dy * dy >= MoveEpsilon * MoveEpsilon
        IN  IF long
            THEN /\ last.moved_pos[1] = last.pre_pos[1] + dx
                 /\ last.moved_pos[2] = last.pre_pos[2] + dy
            ELSE /\ last.moved_pos[1] = last.pre_pos[1]
                 /\ last.moved_pos[2] = last.pre_pos[2]

\* a step with a free destination has moved the mover horizontally
C2_Witness ==
    /\ Stepped /\ last.h.dest_free /\ last.h.moving
    /\ <<last.moved_pos[1], last.moved_pos[2]>> # <<last.pre_pos[1], last.pre_pos[2]>>

\* C3: after a step whose destination was wall-blocked, the horizontal
\* velocity has no component into the wall along the hit normal
C3_NoVelocityIntoWall ==
    (Stepped /\ last.h.blocked) =>
        velocity[1] * last.h.normal[1] + velocity[2] * last.h.normal[2] >= 0

\* C4: a stepping update that starts at or above a walkable floor of height g
\* and moves down by at most the 0.5 m reach of the ground rays ends at or
\* above g
C4_NoTunneling ==
    LET w == World(world)
        floors(x, y) == { w.ground[i].z : i \in { j \in 1..Len(w.ground) :
                             /\ w.ground[j].n[3] >= max_slope
                             /\ w.ground[j].x0 <= x /\ x <= w.ground[j].x1
                             /\ w.ground[j].y0 <= y /\ y <= w.ground[j].y1 } }
    IN  (Stepped /\ Abs(last.move_vel[3] * last.dt) <= RayUp) =>
            \A g \in floors(last.pre_pos[1], last.pre_pos[2])
                       \cap floors(position[1], position[2]) :
                last.pre_pos[3] >= g => position[3] >= g

\* an update in which nothing moves the mover horizontally, begun grounded on
\* flat unobstructed ground with zero velocity
RestingTick ==
    /\ world = "open" /\ is_grounded /\ velocity = <<0, 0, 0>>
    /\ last'.op = "update" /\ ticks' = ticks + 1
    /\ last'.move_vel[1] = 0 /\ last'.move_vel[2] = 0

\* C5 as stated: every tick with zero horizontal velocity of a mover grounded
\* on flat ground with zero velocity leaves z unchanged and grounded true
C5_SnapIdempotent ==
    [][ RestingTick => (position'[3] = position[3] /\ is_grounded') ]_vars

\* C5, amended: every such tick outside noclip mode leaves z unchanged and
\* grounded true
C5_SnapIdempotentWalking ==
    [][ (RestingTick /\ ~noclip_mode) => (position'[3] = position[3] /\ is_grounded') ]_vars

\* a resting tick of a walking mover has happened
C5_Witness ==
    /\ Stepped /\ world = "open" /\ ~noclip_mode
    /\ last.pre_grounded /\ last.pre_vel = <<0, 0, 0>>
    /\ last.move_vel[1] = 0 /\ last.move_vel[2] = 0
    /\ is_grounded /\ position[3] = last.pre_pos[3]

\* C6: the first tick of a new or reset mover standing at the height of flat,
\* wall-free ground advances x and y by v*dt, keeps z at the ground and ends
\* grounded
C6_FirstTick ==
    (Stepped /\ last.pre_fresh /\ world = "open" /\ last.pre_pos[3] = 0) =>
        /\ position[1] = last.pre_pos[1] + last.move_vel[1] * last.dt
        /\ position[2] = last.pre_pos[2] + last.move_vel[2] * last.dt
        /\ position[3] = 0
        /\ is_grounded

\* C9 as stated: every contact normal that is not ground (normal.z below the
\* slope limit, downward-facing ones included) blocks the horizontal move
C9_NonGroundBlocks ==
    (Stepped /\ last.h.moving) =>
        \A i \in 1..Len(last.h.contacts) :
            last.h.contacts[i][3] < max_slope => last.h.blocked

\* C9, amended: a horizontal move is blocked exactly by the contact normals
\* with |normal.z| below the slope limit (downward-facing normals with
\* normal.z <= -0.7 do not block it), and the mover is grounded exactly when
\* a ground ray hits a normal with normal.z at or above the slope limit
C9_WallsAndGround ==
    (Stepped /\ last.h.moving) =>
        /\ last.h.blocked <=> \E i \in 1..Len(last.h.contacts) :
                                  Abs(last.h.contacts[i][3]) < max_slope
        /\ is_grounded <=>
             \E i \in 1..9 :
                LET r == RayTestDown(World(world),
                                     last.moved_pos[1] + GroundRayOffsets[i][1],
                                     last.moved_pos[2] + GroundRayOffsets[i][2],
                                     last.moved_pos[3] + RayUp, last.moved_pos[3] - RayDown)
                IN  r.hit /\ r.n[3] >= max_slope

\* a horizontal move has passed a downward-facing contact without being blocked
C9_Witness ==
    /\ Stepped /\ last.h.moving /\ ~last.h.blocked
    /\ \E i \in 1..Len(last.h.contacts) : last.h.contacts[i][3] <= -max_slope

\* the heights of the valid ground hits (normal.z at or above the slope limit)
\* of the nine ground rays cast at position p
ValidGroundHits(w, p) ==
    { r.z : r \in { q \in { RayTestDown(w, p[1] + GroundRayOffsets[i][1],
                                        p[2] + GroundRayOffsets[i][2],
                                        p[3] + RayUp, p[3] - RayDown) : i \in 1..9 } :
                      q.hit /\ q.n[3] >= max_slope } }

\* C14: after the ground probe, a mover at or below the highest valid hit is
\* at that height with zero vertical velocity and grounded; a mover above the
\* highest valid hit, or with no valid hit, is not grounded
C14_GroundProbe ==
    Stepped =>
        LET hits == ValidGroundHits(World(world), last.moved_pos)
        IN  IF hits # {} /\ \E g \in hits : last.moved_pos[3] <= g
            THEN /\ \A g \in hits : position[3] >= g
                 /\ position[3] \in hits
                 /\ velocity[3] = 0
                 /\ is_grounded
            ELSE ~is_grounded

\* C14, amended: after the ground probe, a mover with a valid ground hit is
\* grounded; below the highest valid hit it is put at that height with zero
\* vertical velocity, at or above it (within the reach of the rays) it keeps
\* its height and vertical velocity; with no valid hit it is not grounded
C14_GroundProbeWithinReach ==
    Stepped =>
        LET hits == ValidGroundHits(World(world), last.moved_pos)
        IN  IF hits = {} THEN
                /\ ~is_grounded
                /\ position = last.moved_pos /\ velocity = last.moved_vel
            ELSE IF \E g \in hits : last.moved_pos[3] < g THEN
                /\ is_grounded
                /\ \A g \in hits : position[3] >= g
                /\ position[3] \in hits
                /\ velocity[3] = 0
            ELSE
                /\ is_grounded
                /\ position = last.moved_pos /\ velocity = last.moved_vel

\* a mover above its highest valid ground hit has been probed and is grounded
C14_Witness ==
    /\ Stepped /\ is_grounded
    /\ LET hits == ValidGroundHits(World(world), last.moved_pos)
       IN  hits # {} /\ \A g \in hits : last.moved_pos[3] > g

\* the horizontal move of the last step met contacts at its destination, all
\* of them with a ground-like normal (|normal.z| at or above the slope limit)
GroundLikeObstruction ==
    /\ Stepped /\ last.h.moving
    /\ Len(last.h.contacts) > 0
    /\ \A i \in 1..Len(last.h.contacts) : Abs(last.h.contacts[i][3]) >= max_slope

\* C15 as stated: a horizontal move obstructed by a ground-like normal makes
\* no horizontal progress
C15_GroundLikeStops ==
    GroundLikeObstruction => Planar(last.moved_pos) = Planar(last.step_pos)

\* C15, amended: a horizontal move that meets only ground-like normals is not
\* blocked and advances by the whole displacement v*dt
C15_GroundLikePasses ==
    GroundLikeObstruction =>
        /\ ~last.h.blocked
        /\ last.moved_pos[1] = last.step_pos[1] + last.move_vel[1] * last.dt
        /\ last.moved_pos[2] = last.step_pos[2] + last.move_vel[2] * last.dt

\* a horizontal move has advanced through a contact with a ground-like normal
C15_Witness ==
    /\ GroundLikeObstruction
    /\ Planar(last.moved_pos) # Planar(last.step_pos)

\* the last step moved far enough to be tested, and its destination and all
\* eighteen deflected probe positions were wall-blocked
Cornered ==
    /\ Stepped /\ last.h.moving
    /\ LET w == World(world)
           p == last.step_pos
           v == last.move_vel
           move_angle == Atan2(v[2], v[1])
           move_len == Quot(ISqrt(100 * (v[1] * v[1] + v[2] * v[2])) * last.dt, 10)
       IN  /\ TestPosition(w, p[1] + v[1] * last.dt, p[2] + v[2] * last.dt, p[3],
                           current_height).blocked
           /\ \A i \in 1..18 :
                 LET t == ProbeAt(p, move_angle, move_len, i)
                 IN  TestPosition(w, t[1], t[2], p[3], current_height).blocked

ProbeBlocked(i) ==
    LET p == last.step_pos
        v == last.move_vel
        t == ProbeAt(p, Atan2(v[2], v[1]),
                     Quot(ISqrt(100 * (v[1] * v[1] + v[2] * v[2])) * last.dt, 10), i)
    IN  TestPosition(World(world), t[1], t[2], p[3], current_height).blocked

\* C17 as stated: after a blocked move the step makes at most 4 further
\* attempts before it accepts a slide or gives up
C17_AtMostFourAttempts ==
    (Stepped /\ last.h.blocked) => last.h.probes <= 4

\* C17, amended: after a blocked move the step tests at most 18 deflected
\* positions, in order, accepts the first one that is free and gives up only
\* when all 18 are blocked
C17_AtMostEighteenAttempts ==
    (Stepped /\ last.h.blocked) =>
        /\ last.h.probes \in 1..18
        /\ \A i \in 1..(last.h.probes - 1) : ProbeBlocked(i)
        /\ last.h.found_slide <=> ~ProbeBlocked(last.h.probes)
        /\ ~last.h.found_slide => last.h.probes = 18

\* a blocked move has accepted a slide after more than four attempts
C17_Witness ==
    /\ Stepped /\ last.h.blocked /\ last.h.found_slide
    /\ last.h.probes > 4
    /\ Planar(last.moved_pos) # Planar(last.step_pos)

\* the ceiling overlap test of the last step at height z, over the place the
\* horizontal move reached
CeilingAt(z) ==
    TestCeiling(World(world), last.moved_pos[1], last.moved_pos[2], z, current_height)

\* C18: a step with vz > 0 whose ceiling test at z + vz*dt is blocked ends at a
\* height h with z <= h < z + vz*dt that is the starting height or a height
\* where the ceiling test is not blocked, with vz = 0; when the test is not
\* blocked the height becomes z + vz*dt and vz is unchanged
C18_CeilingClamp ==
    (Stepped /\ last.move_vel[3] > 0) =>
        LET z == last.step_pos[3]
            new_z == z + last.move_vel[3] * last.dt
        IN  IF CeilingAt(new_z)
            THEN /\ z <= last.moved_pos[3] /\ last.moved_pos[3] < new_z
                 /\ last.moved_pos[3] = z \/ ~CeilingAt(last.moved_pos[3])
                 /\ last.moved_vel[3] = 0
            ELSE /\ last.moved_pos[3] = new_z
                 /\ last.moved_vel[3] = last.move_vel[3]

\* a rising mover has been clamped under a ceiling, above its starting height
C18_Witness ==
    /\ Stepped /\ last.move_vel[3] > 0
    /\ CeilingAt(last.step_pos[3] + last.move_vel[3] * last.dt)
    /\ last.moved_vel[3] = 0
    /\ last.moved_pos[3] > last.step_pos[3]

\* an update outside noclip mode has just taken the mover from the pre-state
VoidTick == world = "void" /\ ticks' = ticks + 1 /\ ~noclip_mode

\* C24: where no ground probe ever reports a valid hit, every tick outside
\* noclip mode leaves the mover ungrounded with its vertical velocity lower by
\* |gravity| * dt, whatever it was, and _slide_move takes it further down
C24_VoidFall ==
    [][ VoidTick =>
          /\ ~is_grounded'
          /\ velocity'[3] = velocity[3] + Quot(gravity * last'.dt, 1000)
          /\ velocity'[3] < velocity[3]
          /\ velocity'[3] < 0
          /\ last'.stepped
          /\ last'.moved_pos[3] = last'.step_pos[3] + velocity'[3] * last'.dt
          /\ position'[3] = last'.moved_pos[3]
          /\ last'.moved_pos[3] < last'.step_pos[3] ]_vars

\* over the void the mover has fallen for two ticks of one second
C24_Witness ==
    /\ world = "void" /\ ~noclip_mode /\ last.op = "update" /\ last.dt = 1000
    /\ ticks = 2 /\ last.pre_vel[3] = gravity
    /\ velocity[3] = 2 * gravity /\ ~is_grounded
    /\ position[3] < last.pre_pos[3]

\* C25: after a _slide_move that started where the mover is not wall-blocked,
\* the horizontal position is the one it started from or one that the
\* wall-overlap test of this step reported free
C25_EndsWhereTested ==
    (/\ Stepped
     /\ ~TestPosition(World(world), last.step_pos[1], last.step_pos[2], last.step_pos[3],
                      current_height).blocked)
       => \/ Planar(last.moved_pos) = Planar(last.step_pos)
          \/ last.h.end_tested

\* C28: while noclip mode is on the velocity is (0,0,0), whatever handle_input
\* and update calls are made, so the mover leaves noclip mode without any
\* leftover velocity
C28_NoclipVelocityZero == noclip_mode => velocity = <<0, 0, 0>>

\* C29: on a live Player the body is attached to the physics world exactly
\* when noclip mode is off; destroy removes the body exactly when it is
\* attached, and leaves no body in the world
C29_BodyAttachment ==
    [][ /\ Live' => body_attached' = (IF noclip_mode' THEN 0 ELSE 1)
        /\ (Live /\ ~Live') =>
              /\ body_attached' = 0
              /\ body_attached' = body_attached - (IF body_attached = 1 THEN 1 ELSE 0) ]_vars

\* a Player in noclip mode has been destroyed without a removal of its body
C29_Witness ==
    /\ ~Live /\ noclip_mode /\ body_attached = 0

-----------------------------------------------------------------------------
(* Properties of the pounce (SpecPounce) *)

Phase(s) ==
    IF ~s.is_pouncing THEN "Idle" ELSE IF s.pounce_falling THEN "Falling" ELSE "Arcing"

\* the step is a call of update_pounce, directly or from update_ai
PounceTick == spider_ticks' = spider_ticks + 1 /\ spider.is_pouncing

\* C1: an arc tick on which the forward ray reports a wall ends in Falling, and
\* from Falling every pounce tick takes the falling branch and the pounce
\* stays in Falling until it lands
C1_WallHitFalls ==
    [][ /\ (PounceTick /\ pounce_log'.branch = "arc" /\ pounce_log'.wall)
            => Phase(spider') = "Falling"
        /\ (PounceTick /\ Phase(spider) = "Falling") => pounce_log'.branch = "fall"
        /\ Phase(spider) = "Falling" => Phase(spider') \in {"Falling", "Idle"} ]_vars

\* a pounce that hit the wall has taken a falling tick and is still falling
C1_Witness ==
    /\ terrain = "wallx" /\ Phase(spider) = "Falling"
    /\ pounce_log.branch = "fall"

\* C7: the phase changes only along Idle->Arcing, Arcing->Falling,
\* Arcing->Idle and Falling->Idle; update_pounce in Idle changes nothing; a
\* start outside Idle changes nothing
C7_PhaseMachine ==
    [][ /\ <<Phase(spider), Phase(spider')>> \in
              { <<"Idle", "Idle">>, <<"Idle", "Arcing">>, <<"Arcing", "Arcing">>,
                <<"Arcing", "Falling">>, <<"Arcing", "Idle">>,
                <<"Falling", "Falling">>, <<"Falling", "Idle">> }
        /\ (Phase(spider) # Phase(spider') /\ Phase(spider') = "Arcing")
              => pounce_log'.op \in {"start", "update"}
        /\ (pounce_log'.op = "update_pounce" /\ Phase(spider) = "Idle")
              => (spider' = spider /\ target' = target)
        /\ (pounce_log'.op = "start" /\ Phase(spider) # "Idle") => spider' = spider ]_vars

\* a pounce has gone through Arcing and Falling and has landed
C7_Witness ==
    /\ Phase(spider) = "Idle" /\ pounce_log.branch = "fall"
    /\ spider.pounce_start_pos # None

\* C8: at the start of a pounce the creature is at the start position; after
\* an arc tick that leaves it in Arcing, x and y are start + (target - start)*t
\* and z is the base height plus arc_height * sin(pi * t); 0.2 s into the leap
\* from (0,0,0) to (4,0,0) it is at (2, 0) and 1.5 above the base, in Arcing
C8_ArcShape ==
    LET t == Min(spider.pounce_progress, pounce_duration)
        a == spider.pounce_start_pos
        b == spider.pounce_target_pos
        sine == SinPiTable[(t * 8) \div pounce_duration + 1]
    IN  /\ (Phase(spider) = "Arcing" /\ spider.pounce_progress = 0) => spider.pos = a
        /\ (Phase(spider) = "Arcing" /\ pounce_log.branch = "arc") =>
              /\ spider.pos[1] = a[1] + Quot((b[1] - a[1]) * t, pounce_duration)
              /\ spider.pos[2] = a[2] + Quot((b[2] - a[2]) * t, pounce_duration)
              /\ spider.pos[3] = pounce_log.base_z + Quot(pounce_arc_height * sine, 1000)
        /\ (/\ pounce_log.branch = "arc" /\ ~pounce_log.wall
            /\ a = <<0, 0, 0>> /\ b = <<4000, 0, 0>>
            /\ spider.pounce_progress = 200) =>
              /\ Phase(spider) = "Arcing"
              /\ spider.pos = <<2000, 0, 1500>>
              /\ pounce_log.base_z = 0

\* the leap from (0,0,0) toward (4,0,0) is at its peak
C8_Witness ==
    /\ Phase(spider) = "Arcing" /\ pounce_log.branch = "arc"
    /\ spider.pounce_start_pos = <<0, 0, 0>> /\ spider.pounce_target_pos = <<4000, 0, 0>>
    /\ spider.pounce_progress = 200 /\ spider.pos = <<2000, 0, 1500>>

\* a start asked from Idle, off cooldown, for a target within 0.01 of the creature
DegenerateStart ==
    /\ pounce_log'.op = "start" /\ pounce_log'.goal # None
    /\ Phase(spider) = "Idle" /\ spider.pounce_timer <= 0
    /\ (pounce_log'.goal[1] - spider.pos[1]) * (pounce_log'.goal[1] - spider.pos[1])
       + (pounce_log'.goal[2] - spider.pos[2]) * (pounce_log'.goal[2] - spider.pos[2])
         <= DirEpsilon * DirEpsilon

\* such a start enters Arcing with direction (0,1,0) and the target at the start
DegenerateStarted ==
    /\ Phase(spider') = "Arcing"
    /\ spider'.pounce_direction = <<0, 1000, 0>>
    /\ spider'.pounce_start_pos = spider.pos
    /\ spider'.pounce_target_pos = spider.pos

\* the arc tick on which a pounce with target = start reaches progress 1.0,
\* with ground under the creature
DegenerateFinalTick ==
    /\ PounceTick /\ Phase(spider) = "Arcing"
    /\ spider.pounce_target_pos = spider.pounce_start_pos
    /\ spider.pounce_progress < pounce_duration
    /\ spider'.pounce_progress >= pounce_duration
    /\ RaycastDown(TerrainByName[terrain], spider.pos).hit

\* C10 as stated: a degenerate start enters Arcing with the default direction
\* and target = start, and with ground beneath the pounce is back in Idle on
\* the tick its progress reaches 1.0
C10_DegenerateLands ==
    [][ /\ DegenerateStart => DegenerateStarted
        /\ DegenerateFinalTick => Phase(spider') = "Idle" ]_vars

\* C10, amended: ... it is back in Idle on the tick its progress reaches 1.0
\* unless the forward ray reports a wall on that tick, and then it is Falling
C10_DegenerateLandsUnlessWall ==
    [][ /\ DegenerateStart => DegenerateStarted
        /\ (DegenerateFinalTick /\ ~pounce_log'.wall) => Phase(spider') = "Idle"
        /\ (DegenerateFinalTick /\ pounce_log'.wall) => Phase(spider') = "Falling" ]_vars

\* a pounce with target = start has landed on the arc tick that completed it
C10_Witness ==
    /\ Phase(spider) = "Idle" /\ pounce_log.branch = "arc"
    /\ spider.pounce_start_pos # None
    /\ spider.pounce_target_pos = spider.pounce_start_pos
    /\ spider.pounce_direction = <<0, 1000, 0>>
    /\ spider.pounce_progress >= pounce_duration
\* a frame of a spider that is neither pouncing nor backtracking while its
\* target is farther than idle_radius (or absent)
FarTick ==
    /\ pounce_log'.op = "update"
    /\ ~spider.is_pouncing /\ ~spider.is_backtracking
    /\ DistanceToTarget(spider, target) > idle_radius

ArcTickNoWall == PounceTick /\ pounce_log'.branch = "arc" /\ ~pounce_log'.wall

\* C19: an arc tick without a wall hit never lands while progress is below
\* 1.0; once progress has reached 1.0 it lands (z = ground + offset, phase
\* Idle) exactly when the downward probe at the final position hits and the
\* computed z is at most ground + offset + 0.1, and otherwise enters Falling
\* with vertical velocity 0
C19_ArcLanding ==
    [][ ArcTickNoWall =>
          LET final == ArcPosition(spider, pounce_duration, TerrainByName[terrain]).pos
              g == GroundAt(TerrainByName[terrain], final[1], final[2])
              probe_hits == g[1] /\ g[2] <= final[3] + ProbeUp /\ g[2] >= final[3] - ProbeDown
          IN  IF spider'.pounce_progress < pounce_duration
              THEN Phase(spider') = "Arcing"
              ELSE IF probe_hits /\ final[3] <= g[2] + ground_offset + LandTolerance
              THEN /\ Phase(spider') = "Idle"
                   /\ spider'.pos = <<final[1], final[2], g[2] + ground_offset>>
              ELSE /\ Phase(spider') = "Falling"
                   /\ spider'.pounce_velocity_z = 0 ]_vars

\* a pounce has finished its arc over a place without ground and is falling
C19_Witness ==
    /\ Phase(spider) = "Falling" /\ pounce_log.branch = "arc" /\ ~pounce_log.wall
    /\ spider.pounce_progress >= pounce_duration
    /\ ~RaycastDown(TerrainByName[terrain], spider.pos).hit
\* C20: a Falling tick decreases the pounce's vertical velocity by
\* gravity*dt and leaves x and y unchanged; it lands, at ground + offset,
\* exactly when the downward probe hits and the new height is at or below
\* ground + offset; otherwise z becomes the new height and the pounce stays
\* in Falling
C20_FallingTick ==
    [][ (PounceTick /\ Phase(spider) = "Falling") =>
          LET dt == pounce_log'.dt
              vz == spider.pounce_velocity_z - Quot(spider_gravity * dt, 1000)
              new_z == spider.pos[3] + Quot(vz * dt, 1000)
              g == GroundAt(TerrainByName[terrain], spider.pos[1], spider.pos[2])
              probe_hits == /\ g[1] /\ g[2] <= spider.pos[3] + ProbeUp
                            /\ g[2] >= spider.pos[3] - ProbeDown
          IN  /\ spider'.pounce_velocity_z = vz
              /\ Planar(spider'.pos) = Planar(spider.pos)
              /\ IF probe_hits /\ new_z <= g[2] + ground_offset
                 THEN Phase(spider') = "Idle" /\ spider'.pos[3] = g[2] + ground_offset
                 ELSE Phase(spider') = "Falling" /\ spider'.pos[3] = new_z ]_vars

\* a pounce that ran out of ground has taken a falling tick and keeps falling
C20_Witness ==
    /\ terrain = "cliff" /\ Phase(spider) = "Falling" /\ pounce_log.branch = "fall"
    /\ spider.pounce_velocity_z < 0 /\ spider.pos[3] < spider.pounce_start_pos[3]
\* a start accepted from Idle: the step takes the spider from Idle into a pounce
StartAccepted == Phase(spider) = "Idle" /\ Phase(spider') # "Idle"

\* an accepted call of start_pounce or start_pounce_to, whose requested target
\* is in the history
StartCallAccepted == StartAccepted /\ pounce_log'.op = "start" /\ pounce_log'.goal # None

\* C21 as stated: an accepted start records the current position as the
\* start, resets progress to 0, and puts the pounce target on the planar line
\* toward the requested target at distance min(pounce_distance, planar
\* distance), at the start's z; the planned travel never exceeds
\* pounce_distance
C21_StartPlan ==
    [][ /\ StartAccepted =>
              /\ spider'.pounce_start_pos = spider'.pos
              /\ spider'.pounce_progress = 0
              /\ spider'.pounce_target_pos[3] = spider'.pounce_start_pos[3]
              /\ PlanarDistance(spider'.pounce_start_pos, spider'.pounce_target_pos)
                    <= pounce_distance
        /\ StartCallAccepted =>
              LET dist == PlanarDistance(spider.pos, pounce_log'.goal)
              IN  /\ spider'.pounce_start_pos = spider.pos
                  /\ PlanarDistance(spider.pos, spider'.pounce_target_pos)
                        = Min(pounce_distance, dist)
                  /\ dist > 0 =>
                        spider'.pounce_target_pos =
                           Along(spider.pos, UnitToward(spider.pos, pounce_log'.goal),
                                 Min(pounce_distance, dist)) ]_vars

\* C21, amended: ... at distance min(pounce_distance, planar distance) when
\* that planar distance exceeds 0.01, and at the start position itself
\* otherwise
C21_StartPlanBeyondEpsilon ==
    [][ /\ StartAccepted =>
              /\ spider'.pounce_start_pos = spider'.pos
              /\ spider'.pounce_progress = 0
              /\ spider'.pounce_target_pos[3] = spider'.pounce_start_pos[3]
              /\ PlanarDistance(spider'.pounce_start_pos, spider'.pounce_target_pos)
                    <= pounce_distance
        /\ StartCallAccepted =>
              LET dist == PlanarDistance(spider.pos, pounce_log'.goal)
              IN  /\ spider'.pounce_start_pos = spider.pos
                  /\ spider'.pounce_target_pos =
                        IF dist > DirEpsilon
                        THEN Along(spider.pos, UnitToward(spider.pos, pounce_log'.goal),
                                   Min(pounce_distance, dist))
                        ELSE spider.pos ]_vars

\* a pounce toward a target 6 m away has been started with its travel cut to
\* pounce_distance
C21_Witness ==
    /\ pounce_log.op = "start" /\ Phase(spider) = "Arcing" /\ spider.pounce_progress = 0
    /\ PlanarDistance(spider.pos, pounce_log.goal) > pounce_distance
    /\ PlanarDistance(spider.pounce_start_pos, spider.pounce_target_pos) = pounce_distance

\* C22 as stated: the stored progress (here in ms of the pounce_duration that
\* make the fraction 1.0) stays within [0, 1]
C22_ProgressInUnit == 0 <= spider.pounce_progress /\ spider.pounce_progress <= pounce_duration

\* C22, amended: the progress used to place the creature, the stored progress
\* cut to at most 1.0, stays within [0, 1]: the stored progress is never
\* negative and is below 1.0 while the pounce is Arcing, and the arc tick
\* that takes it to 1.0 or beyond places the creature at the pounce target
C22_ClampedProgress ==
    [][ /\ spider'.pounce_progress >= 0
        /\ Phase(spider') = "Arcing" => spider'.pounce_progress < pounce_duration
        /\ (ArcTickNoWall /\ spider'.pounce_progress >= pounce_duration) =>
              Planar(spider'.pos) = Planar(spider.pounce_target_pos) ]_vars

\* a pounce has landed at its target on a tick that took the stored progress
\* beyond 1.0
C22_Witness ==
    /\ Phase(spider) = "Idle" /\ pounce_log.branch = "arc" /\ ~pounce_log.wall
    /\ spider.pounce_progress > pounce_duration
    /\ spider.pounce_target_pos # spider.pounce_start_pos
    /\ Planar(spider.pos) = Planar(spider.pounce_target_pos)

\* C23: where every downward probe misses, a started pounce never lands: the
\* tick on which its progress reaches 1.0 leaves it Falling, every tick in
\* Falling leaves it Falling with a strictly lower z, and every frame of the
\* creature runs update_pounce and nothing of its normal AI
C23_VoidNeverLands ==
    [][ terrain = "void" =>
          /\ Phase(spider) # "Idle" => Phase(spider') # "Idle"
          /\ (PounceTick /\ spider'.pounce_progress >= pounce_duration)
                => Phase(spider') = "Falling"
          /\ (PounceTick /\ Phase(spider) = "Falling") =>
                /\ Phase(spider') = "Falling"
                /\ spider'.pos[3] < spider.pos[3]
                /\ Planar(spider'.pos) = Planar(spider.pos)
          /\ (PounceTick /\ pounce_log'.op = "update") =>
                /\ pounce_log'.branch \in {"arc", "fall"}
                /\ spider'.state = spider.state
                /\ spider'.is_wandering = spider.is_wandering ]_vars

\* over the void a pounce has finished its arc and has fallen for two ticks
C23_Witness ==
    /\ terrain = "void" /\ Phase(spider) = "Falling" /\ pounce_log.branch = "fall"
    /\ spider.pounce_progress >= pounce_duration
    /\ spider.pounce_velocity_z <= -2 * Quot(spider_gravity * 100, 1000)
    /\ spider.pos[3] < spider.pounce_start_pos[3]

\* C26: a start asked while a pounce is in progress or the cooldown timer is
\* above 0 changes nothing; a pounce only ever starts from Idle; and when a
\* start is accepted after an earlier one, update_ai has been handed at
\* least pounce_cooldown of dt in between
C26_CooldownBetweenStarts ==
    [][ /\ (pounce_log'.op = "start" /\ (spider.is_pouncing \/ spider.pounce_timer > 0))
              => (spider' = spider /\ target' = target)
        /\ (\/ spider'.pounce_start_pos # spider.pounce_start_pos
            \/ spider'.pounce_progress < spider.pounce_progress
            \/ spider'.pounce_timer > spider.pounce_timer)
              => StartAccepted
        /\ (StartAccepted /\ pounce_log.since >= 0) =>
              pounce_log.since + (IF pounce_log'.op = "update" THEN pounce_log'.dt ELSE 0)
                 >= pounce_cooldown ]_vars

\* a pounce has struck the target, and a second pounce has been started once
\* the cooldown of the first had run out
C26_Witness ==
    /\ target.damage_calls >= 1
    /\ Phase(spider) = "Arcing" /\ spider.pounce_progress = 0 /\ pounce_log.since = 0
    /\ spider.pounce_timer = pounce_cooldown
    /\ spider_ticks >= 2

\* C27: from the start of a pounce on, the target's take_damage is called at
\* most once, and only in a pounce started by start_pounce (an attack), never
\* in one started by start_pounce_to
C27_OneStrikePerPounce ==
    /\ pounce_log.struck <= 1
    /\ pounce_log.struck >= 1 => spider.pounce_is_attack
    /\ (pounce_log.dmg >= 1 /\ target.can_be_hurt) => pounce_log.struck = 1

\* an attack pounce has struck its target and is still in the air, touching it
C27_Witness ==
    /\ pounce_log.struck = 1 /\ target.damage_calls = 1
    /\ Phase(spider) = "Arcing" /\ spider.pounce_is_attack /\ spider.pounce_hit_player
    /\ pounce_log.branch = "arc" /\ pounce_log.dmg = 0
    /\ IntersectsPlayer(spider, target)

\* C30: once take_damage has brought the creature's health to 0 (is_alive
\* false, state 'death'), no later take_damage, heal or update changes the
\* health from 0 or the state from 'death'; the health stays within
\* [0, max_health] throughout
C30_DeathAbsorbing ==
    [][ /\ (~is_alive /\ health = 0 /\ spider.state = STATE_DEATH) =>
              /\ health' = 0
              /\ spider'.state = STATE_DEATH
              /\ ~is_alive'
        /\ 0 <= health' /\ health' <= max_health ]_vars

-----------------------------------------------------------------------------
(* Properties of the creature handler (SpecHandler) *)

\* C12: every add returns an ID no earlier add returned; get(id) is the
\* creature added under that ID until remove(id) is called and None
\* afterwards; a remove leaves every other ID's creature where it was
C12_StableIds ==
    [][ /\ \A i, j \in 1..Len(handed_out') : i # j => handed_out'[i].id # handed_out'[j].id
        /\ \A i \in 1..Len(handed_out') :
              Get(creatures', handed_out'[i].id) =
                 IF handed_out'[i].id \in asked_removed' THEN NoCreature
                 ELSE handed_out'[i].creature
        /\ handed_out' = handed_out =>
              \A other \in (-1..MaxCreatures) \ (asked_removed' \ asked_removed) :
                 Get(creatures', other) = Get(creatures, other) ]_vars

\* a creature added before a removed one and one added after it are both
\* still found under their IDs
C12_Witness ==
    /\ Len(handed_out) >= 3
    /\ \E i \in 2..(Len(handed_out) - 1) :
          /\ handed_out[i].id \in asked_removed
          /\ handed_out[i - 1].id \notin asked_removed
          /\ handed_out[i + 1].id \notin asked_removed
          /\ Get(creatures, handed_out[i].id) = NoCreature
          /\ Get(creatures, handed_out[i + 1].id) = handed_out[i + 1].creature
-----------------------------------------------------------------------------
(* Properties of the gamepad reads (SpecPad) *)

\* C11: nothing the ThirdPersonPlayer reads during its tick is written by
\* another thread than the main one: while a tick is in progress the gamepad
\* thread writes neither the stick axes, nor the button map, nor the
\* availability flag
C11_SingleWriter == pad_log.written = {}
====
